---------------------------- MODULE Spec2Model ----------------------------
(***************************************************************************)
(* Streaming data-quality scripts of the intrusion-detection repository:   *)
(* the chunked accumulate / decide / rewrite loops of                       *)
(*   Check_Dominance_Impossible_values.py                                   *)
(*   Checks_Which_columns_need_encoding.py                                  *)
(*   Check_Handle_Dominance_Impossible_INF_values.py                        *)
(*   Constant_LowVarience_Dominance_INF_Impossible.py                       *)
(*   Deletes_Mentioned_Columns.py                                           *)
(*   Label_Detection.py, Label_Detection_and_Splitting_for_Training_Testing *)
(*   Find_Missing_and_Separate_Bening_Attack.py                             *)
(*   New_Column_to_handle_string.py, Remove_Duplicate_Rows.py               *)
(*   Check_For_Impossible_Values_Range.py                                   *)
(* and the loop over the files of a folder of main.                         *)
(*                                                                         *)
(* A CSV file is a header (sequence of column names) and a sequence of     *)
(* rows; a row is a sequence of cells aligned with the header; a cell is   *)
(* the text of the field.  pandas is modelled by what the scripts use of   *)
(* it: read_csv(chunksize=n) yields consecutive slices of the rows whose   *)
(* index continues from one chunk to the next, to_numeric(errors='coerce') *)
(* parses a cell or yields NaN, to_csv(mode='w') replaces the destination  *)
(* and writes a header, to_csv(mode='a', header=False) appends rows.       *)
(***************************************************************************)
EXTENDS Integers, Sequences, FiniteSets, TLC

VARIABLES
    header,                  \* column names of the input file
    file,                    \* rows of the input file
    CHUNK_SIZE,              \* chunksize handed to pd.read_csv
    pc,                      \* position of the running function
    rows_read,               \* rows consumed by the reader of the current pass
    is_first_chunk,          \* rewrite passes: no chunk written yet
    output_csv,              \* lines of the destination file
    col_counters,            \* generate_dominance_report: col -> Counter
    total_counts,            \* generate_dominance_report: col -> non-null total
    label_counter,           \* generate_dominance_report: Counter of labels
    col_value_label_counter, \* generate_dominance_report: col -> Counter of (v, lbl)
    bucketed,                \* generate_dominance_report: range label -> columns
    rows_to_remove,          \* Checks_Which_columns_need_encoding: recorded indices
    chunk_start_row,         \* Checks_Which_columns_need_encoding: running offset
    both_valid_counter,      \* Checks_Which_columns_need_encoding: Counter of labels
    both_invalid_counter,    \* Checks_Which_columns_need_encoding: Counter of labels
    delete_confirm,          \* Checks_Which_columns_need_encoding: the answer typed
    df,                      \* run_data_validation: the loaded DataFrame
    results,                 \* run_data_validation: validate_data_quality's result
    choice,                  \* clean_data_if_needed: the answer typed
    inf_counts,              \* inf tasks: col -> infinite cells counted so far
    total_rows,              \* run_inf_column_removal: rows counted so far
    columns_to_delete,       \* run_inf_column_removal: the flagged columns
    user_input,              \* run_inf_column_removal: the answer typed, lowered
    medians,                 \* run_inf_imputation: col -> substitution value
    min_perc,                \* run_interactive_dominance_analysis: lower bound typed
    max_perc,                \* run_interactive_dominance_analysis: upper bound typed
    columns_in_range,        \* run_interactive_dominance_analysis: col -> (value, ratio)
    listing,                 \* main: os.listdir(INPUT_FOLDER)
    main_choice,             \* main: the task typed at the menu
    file_pos,                \* main: entries of the listing the loop has passed
    task_phase,              \* main: where the task of the current file is
    outcomes,                \* main: what each task call ended with, in call order
    label_counts,            \* split_and_write: Counter of labels of pass 1
    train_needed,            \* split_and_write: label -> rows planned for training
    test_needed,             \* split_and_write: label -> rows planned for test
    written_train,           \* split_and_write: label -> rows sent to training
    written_test,            \* split_and_write: label -> rows sent to test
    train_csv,               \* split_and_write: lines of the file at train_path
    test_csv,                \* split_and_write: lines of the file at test_path
    labels_to_delete,        \* process_and_save_file: labels cleaned of missing rows
    benign_rows_per_file,    \* process_and_save_file: limit entered for Benign
    attack_rows_per_file,    \* process_and_save_file: limit entered for Attacks
    separate_by_missing,     \* process_and_save_file: NoMissing / Missing folders
    scope,                   \* process_and_save_file: what the separation applies to
    buffers,                 \* process_and_save_file: (category, status) -> rows held
    part_counts,             \* process_and_save_file: (category, status) -> next part
    parts,                   \* process_and_save_file: file name -> rows of the part
    first_chunk,             \* New_Column / Remove_Duplicate: header still to write
    seen_rows                \* Remove_Duplicate_Rows: rows written so far

inVars  == <<header, file, CHUNK_SIZE>>
outVars == <<is_first_chunk, output_csv>>
domVars == <<col_counters, total_counts, label_counter, col_value_label_counter, bucketed>>
encVars == <<rows_to_remove, chunk_start_row, both_valid_counter, both_invalid_counter,
             delete_confirm>>

valVars == <<df, results, choice>>
infVars == <<inf_counts, total_rows, columns_to_delete, user_input>>
impVars == <<medians>>
intVars == <<min_perc, max_perc, columns_in_range>>
mainVars == <<listing, main_choice, file_pos, task_phase, outcomes>>
splitVars == <<label_counts, train_needed, test_needed, written_train, written_test,
               train_csv, test_csv>>
sepVars == <<labels_to_delete, benign_rows_per_file, attack_rows_per_file,
             separate_by_missing, scope, buffers, part_counts, parts>>
extVars == <<splitVars, sepVars, first_chunk, seen_rows>>

vars == <<inVars, pc, rows_read, outVars, domVars, encVars, valVars, infVars, impVars,
          intVars, mainVars, extVars>>

\* What each script leaves alone: the state of the others
notDom == <<outVars, encVars, valVars, infVars, impVars, intVars, mainVars, extVars>>
notEnc == <<domVars, valVars, infVars, impVars, intVars, mainVars, extVars>>
notVal == <<domVars, encVars, infVars, impVars, intVars, mainVars, extVars>>
notInf == <<domVars, encVars, valVars, impVars, intVars, mainVars, extVars>>
notImp == <<domVars, encVars, valVars, total_rows, columns_to_delete, user_input,
            intVars, mainVars, extVars>>
notDel == <<domVars, encVars, valVars, infVars, impVars, intVars, mainVars, extVars>>

-----------------------------------------------------------------------------
(* Bounds of the model *)

MaxChunk == 3
MaxDomRows == 3
MaxRunRows == 20
MaxMinor == 2
MaxEncRows == 4
MaxValRows == 2
MaxInfRows == 2
MaxLongRows == 10
MaxImpRows == 2
MaxImpLong == 5
MaxDelRows == 3
MaxListing == 3
MaxIntRows == 3
MaxSplitRows == 4
MaxSepRows == 3
MaxLimit == 2
MaxNcRows == 3
MaxDupRows == 4

-----------------------------------------------------------------------------
(* pandas / Python helpers *)

\* An empty field is read as NaN.
NaN == ""

Min(a, b) == IF a < b THEN a ELSE b

Range(s) == {s[i] : i \in DOMAIN s}

\* All sequences over S of length 1..n
SeqsUpTo(S, n) == UNION {[1..k -> S] : k \in 1..n}

\* str.lower() on the column names the model uses
Lower(name) == IF name = "Label" THEN "label" ELSE name

\* The chunk pd.read_csv yields after `pos` rows have been consumed
NextChunk(rows, pos, size) == SubSeq(rows, pos + 1, Min(pos + size, Len(rows)))

\* chunk[col]
ColIndex(hdr, col) == CHOOSE i \in DOMAIN hdr : hdr[i] = col
Column(hdr, chunk, col) == [r \in DOMAIN chunk |-> chunk[r][ColIndex(hdr, col)]]

\* Series.dropna()
DropNa(values) == SelectSeq(values, LAMBDA v : v # NaN)

\* collections.Counter: the keys in insertion order, each with its count
CounterKeys(c) == {c[i].key : i \in DOMAIN c}
CounterGet(c, k) ==
    IF k \in CounterKeys(c)
    THEN (c[CHOOSE i \in DOMAIN c : c[i].key = k]).n
    ELSE 0
\* The increment written as an assignment of 1
CounterIncOverwrite(c, k) ==
    IF k \in CounterKeys(c)
    THEN [i \in DOMAIN c |-> IF c[i].key = k THEN [key |-> k, n |-> 1] ELSE c[i]]
    ELSE Append(c, [key |-> k, n |-> 1])

CounterInc(c, k) ==
    IF k \in CounterKeys(c)
    THEN [i \in DOMAIN c |-> IF c[i].key = k THEN [key |-> k, n |-> c[i].n + 1] ELSE c[i]]
    ELSE Append(c, [key |-> k, n |-> 1])

RECURSIVE CounterUpdate(_, _)
CounterUpdate(c, values) ==
    IF values = <<>> THEN c
    ELSE CounterUpdate(CounterInc(c, Head(values)), Tail(values))

RECURSIVE CounterSum(_)
CounterSum(c) == IF c = <<>> THEN 0 ELSE Head(c).n + CounterSum(Tail(c))

\* Counter.most_common(1)[0][1]: the largest count
MostCommonCount(c) == CHOOSE m \in {c[i].n : i \in DOMAIN c} : \A i \in DOMAIN c : c[i].n <= m

\* The key of the last entry that holds the largest count
MostCommonLast(c) ==
    c[CHOOSE i \in DOMAIN c :
         /\ c[i].n = MostCommonCount(c)
         /\ \A j \in DOMAIN c : j > i => c[j].n < c[i].n].key

\* Counter.most_common(1)[0][0]: most_common(1) is max() over the items in
\* insertion order with the count as key, and max() returns the first of the
\* largest
MostCommon(c) ==
    c[CHOOSE i \in DOMAIN c :
         /\ c[i].n = MostCommonCount(c)
         /\ \A j \in DOMAIN c : j < i => c[j].n < c[i].n].key

\* defaultdict / Counter read of a key that may be missing
GetOr(f, k, default) == IF k \in DOMAIN f THEN f[k] ELSE default

\* d[k] = v on a dict
Put(f, k, v) == (k :> v) @@ f

\* Lines of a CSV file: DataFrame.to_csv(path, index=False, mode='w') replaces
\* the destination by a header line and the rows; mode='a', header=False
\* appends the rows to what the destination holds.
HeaderLine(cols) == [kind |-> "header", cells |-> cols]
RowLine(cells) == [kind |-> "row", cells |-> cells]
RowLines(rows) == [i \in DOMAIN rows |-> RowLine(rows[i])]
ToCsvWrite(cols, rows) == <<HeaderLine(cols)>> \o RowLines(rows)
ToCsvAppend(dest, rows) == dest \o RowLines(rows)

\* What a destination may hold before a run: nothing, or the output of an older run
StaleFile == <<HeaderLine(<<"old">>), RowLine(<<"stale">>)>>
Destinations == {<<>>, StaleFile}

\* Index labels that restart at 0 in every chunk
ChunkIndexPerChunk(pos, chunk) == [i \in DOMAIN chunk |-> i - 1]

\* The index labels of a chunk: read_csv numbers the rows of the whole file,
\* so the chunk read after `pos` rows is labelled pos, pos + 1, ...
ChunkIndex(pos, chunk) == [i \in DOMAIN chunk |-> pos + i - 1]

\* The state of the functions that are not running
OutIdle == is_first_chunk = TRUE /\ output_csv = <<>>
DomIdle ==
    /\ col_counters = <<>> /\ total_counts = <<>> /\ label_counter = <<>>
    /\ col_value_label_counter = <<>> /\ bucketed = <<>>
EncIdle ==
    /\ rows_to_remove = <<>> /\ chunk_start_row = 0 /\ both_valid_counter = <<>>
    /\ both_invalid_counter = <<>> /\ delete_confirm = ""
ValIdle == df = <<>> /\ results = <<>> /\ choice = ""
InfIdle ==
    /\ inf_counts = <<>> /\ total_rows = 0 /\ columns_to_delete = {}
    /\ user_input = ""
ImpIdle == medians = <<>>
IntIdle == min_perc = 0 /\ max_perc = 0 /\ columns_in_range = <<>>
MainIdle ==
    /\ listing = <<>> /\ main_choice = "" /\ file_pos = 0 /\ task_phase = 0
    /\ outcomes = <<>>
SplitIdle ==
    /\ label_counts = <<>> /\ train_needed = <<>> /\ test_needed = <<>>
    /\ written_train = <<>> /\ written_test = <<>>
    /\ train_csv = <<>> /\ test_csv = <<>>
SepIdle ==
    /\ labels_to_delete = {} /\ benign_rows_per_file = 0 /\ attack_rows_per_file = 0
    /\ separate_by_missing = FALSE /\ scope = "none"
    /\ buffers = <<>> /\ part_counts = <<>> /\ parts = <<>>
ExtIdle == SplitIdle /\ SepIdle /\ first_chunk = TRUE /\ seen_rows = {}

-----------------------------------------------------------------------------
(* TASK 1: generate_dominance_report *)

DOMINANCE_RANGES ==
    << <<95, 101, "95-100%">>, <<90, 95, "90-95%">>, <<80, 90, "80-90%">>,
       <<70, 80, "70-80%">>, <<60, 70, "60-70%">>, <<50, 60, "50-60%">> >>

\* labels = chunk["Label"] / chunk["label"] / None (as a sequence, <<>> with hasLabels FALSE)
LabelColumn(hdr) ==
    IF "Label" \in Range(hdr) THEN "Label"
    ELSE IF "label" \in Range(hdr) THEN "label"
    ELSE "None"

\* zip(chunk[col], labels) restricted to pd.notna(v) and pd.notna(lbl)
ValueLabelPairs(values, labels) ==
    LET idx == SelectSeq([i \in DOMAIN values |-> i],
                         LAMBDA i : values[i] # NaN /\ labels[i] # NaN)
    IN  [j \in DOMAIN idx |-> <<values[idx[j]], labels[idx[j]]>>]

\* total_counts[col] += len(values), written without the accumulation
TotalAfterLastChunkOnly(old, values) == Len(values)

\* total_counts[col] += len(values)
TotalAfter(old, values) == old + Len(values)

\* The body of the chunk loop: the accumulator after absorbing one chunk
Absorb(acc, hdr, chunk) ==
    LET lblcol == LabelColumn(hdr)
        labels == IF lblcol = "None" THEN <<>> ELSE Column(hdr, chunk, lblcol)
        cols   == Range(hdr)
    IN  [ col_counters |->
            [col \in cols |->
                CounterUpdate(GetOr(acc.col_counters, col, <<>>),
                              DropNa(Column(hdr, chunk, col)))],
          total_counts |->
            [col \in cols |->
                TotalAfter(GetOr(acc.total_counts, col, 0),
                           DropNa(Column(hdr, chunk, col)))],
          col_value_label_counter |->
            [col \in cols |->
                IF lblcol # "None" /\ Lower(col) # "label"
                THEN CounterUpdate(GetOr(acc.col_value_label_counter, col, <<>>),
                                   ValueLabelPairs(Column(hdr, chunk, col), labels))
                ELSE GetOr(acc.col_value_label_counter, col, <<>>)],
          label_counter |->
            IF lblcol # "None"
            THEN CounterUpdate(acc.label_counter, DropNa(labels))
            ELSE acc.label_counter ]

EmptyAcc ==
    [ col_counters |-> <<>>, total_counts |-> <<>>,
      col_value_label_counter |-> <<>>, label_counter |-> <<>> ]

Acc ==
    [ col_counters |-> col_counters, total_counts |-> total_counts,
      col_value_label_counter |-> col_value_label_counter,
      label_counter |-> label_counter ]

\* The range test written low < ratio < high
RECURSIVE FirstRangeStrictLow(_, _, _)
FirstRangeStrictLow(ranges, count, total) ==
    IF ranges = <<>> THEN "None"
    ELSE IF Head(ranges)[1] * total < 100 * count /\ 100 * count < Head(ranges)[2] * total
         THEN Head(ranges)[3]
         ELSE FirstRangeStrictLow(Tail(ranges), count, total)

\* for low, high, label in DOMINANCE_RANGES: if low <= ratio < high: ...; break
\* ratio = count / total is a double and so are the edges; a quotient that is
\* exactly an edge rounds to the same double as the edge's literal, and no other
\* quotient of counts below 10^15 does, so the comparison is the exact one,
\* written here on integers with the edges in percent.
RECURSIVE FirstRange(_, _, _)
FirstRange(ranges, count, total) ==
    IF ranges = <<>> THEN "None"
    ELSE IF Head(ranges)[1] * total <= 100 * count /\ 100 * count < Head(ranges)[2] * total
         THEN Head(ranges)[3]
         ELSE FirstRange(Tail(ranges), count, total)

\* The bucket a column is appended to, "None" when it is appended to none
BucketOf(counts, total) ==
    IF total = 0 THEN "None"
    ELSE FirstRange(DOMINANCE_RANGES, MostCommonCount(counts), total)

RangeLabels == {DOMINANCE_RANGES[i][3] : i \in DOMAIN DOMINANCE_RANGES}

\* bucketed = {label: [...]} after the loop over col_counters.items()
Bucketed(counters, totals, hdr) ==
    [label \in RangeLabels |->
        SelectSeq(hdr, LAMBDA col : col \in DOMAIN counters
                                    /\ BucketOf(counters[col], totals[col]) = label)]

DomHeaders == {<<"proto", "Label">>, <<"proto", "label">>, <<"proto", "flag">>}
DomCells == [proto |-> {"TCP", "UDP", NaN}, Label |-> {"Benign", "Attack", NaN},
             label |-> {"Benign", "Attack", NaN}, flag |-> {"S", NaN}]
DomRows(hdr) == {<<a, b>> : a \in DomCells[hdr[1]], b \in DomCells[hdr[2]]}

\* k rows of one value, then m of a second, then i of a third
Repeat(row, k) == [j \in 1..k |-> row]
RunFile(k, m, i) ==
    Repeat(<<"TCP", "Benign">>, k) \o Repeat(<<"UDP", "Attack">>, m)
        \o Repeat(<<"ICMP", "Attack">>, i)
RunFiles ==
    {RunFile(k, m, i) : k \in 1..MaxRunRows, m \in 0..MaxMinor, i \in 0..MaxMinor}

\* The input files of the model: every short table, and long runs of few values
DomFiles(hdr) ==
    SeqsUpTo(DomRows(hdr), MaxDomRows)
        \cup (IF hdr = <<"proto", "label">>
              THEN {f \in RunFiles : Len(f) <= MaxRunRows} ELSE {})

InitDominance ==
    /\ header \in DomHeaders
    /\ file \in DomFiles(header)
    /\ CHUNK_SIZE \in 1..MaxChunk
    /\ pc = "pass1"
    /\ rows_read = 0
    /\ col_counters = <<>>
    /\ total_counts = <<>>
    /\ label_counter = <<>>
    /\ col_value_label_counter = <<>>
    /\ bucketed = <<>>
    /\ OutIdle /\ EncIdle /\ ValIdle /\ InfIdle /\ ImpIdle /\ IntIdle /\ MainIdle /\ ExtIdle

\* One iteration of `for chunk in pd.read_csv(...)` (lines 49-67)
DomReadChunk ==
    /\ pc = "pass1"
    /\ rows_read < Len(file)
    /\ LET chunk == NextChunk(file, rows_read, CHUNK_SIZE)
           acc   == Absorb(Acc, header, chunk)
       IN  /\ col_counters' = acc.col_counters
           /\ total_counts' = acc.total_counts
           /\ label_counter' = acc.label_counter
           /\ col_value_label_counter' = acc.col_value_label_counter
           /\ rows_read' = rows_read + Len(chunk)
    /\ UNCHANGED <<inVars, pc, bucketed, notDom>>

\* The reader is exhausted: the bucketing loop (lines 69-79)
DomBucket ==
    /\ pc = "pass1"
    /\ rows_read = Len(file)
    /\ bucketed' = Bucketed(col_counters, total_counts, header)
    /\ pc' = "report"
    /\ UNCHANGED <<inVars, rows_read, col_counters, total_counts, label_counter,
                   col_value_label_counter, notDom>>

NextDominance == DomReadChunk \/ DomBucket

SpecDominance == InitDominance /\ [][NextDominance]_vars

-----------------------------------------------------------------------------
(* Properties of generate_dominance_report *)

\* C1: the accumulator at the end of the analysis pass (per-column counters,
\* non-null totals, label counts, (column, value, label) counts) equals the
\* accumulator of the whole file absorbed as one chunk, and absorbing any
\* prefix and then the rest gives that same accumulator.
C1_Mergeable ==
    /\ rows_read = Len(file) => Acc = Absorb(EmptyAcc, header, file)
    /\ rows_read = 0 => \A k \in 0..Len(file) :
          Absorb(Absorb(EmptyAcc, header, SubSeq(file, 1, k)), header,
                 SubSeq(file, k + 1, Len(file)))
            = Absorb(EmptyAcc, header, file)

\* A file read in several chunks whose counters hold a count of 2 or more
\* and whose cross-tabulation is not empty
C1_Witness ==
    /\ pc = "report"
    /\ Len(file) > CHUNK_SIZE
    /\ \E i \in DOMAIN col_counters["proto"] : col_counters["proto"][i].n >= 2
    /\ col_value_label_counter["proto"] # <<>>
    /\ \E r \in DOMAIN file : file[r][1] = NaN

\* Occurrences of a value in a column of the input file, counted on the file
Occurrences(col, v) ==
    Cardinality({r \in DOMAIN file : file[r][ColIndex(header, col)] = v})
NonNullCells(col) ==
    Cardinality({r \in DOMAIN file : file[r][ColIndex(header, col)] # NaN})
MaxOccurrences(col) ==
    LET vals == {file[r][ColIndex(header, col)] : r \in DOMAIN file} \ {NaN}
    IN  CHOOSE m \in {Occurrences(col, v) : v \in vals} :
            \A v \in vals : Occurrences(col, v) <= m
BucketsHolding(col) == {label \in DOMAIN bucketed : col \in Range(bucketed[label])}
InRatioRange(col, low, high) ==
    /\ low * NonNullCells(col) <= 100 * MaxOccurrences(col)
    /\ 100 * MaxOccurrences(col) < high * NonNullCells(col)

\* C6: after bucketing, a column with a non-null value is in at most one bucket,
\* namely the one whose range [low, high) holds its ratio (an edge belongs to the
\* upper bucket, 1.0 to "95-100%"), and in none when the ratio is below 0.50;
\* 960 of 1000 is bucketed "95-100%".
C6_BucketOfRatio ==
    /\ pc = "report" =>
          \A col \in Range(header) : NonNullCells(col) > 0 =>
             /\ Cardinality(BucketsHolding(col)) <= 1
             /\ InRatioRange(col, 95, 101) <=> BucketsHolding(col) = {"95-100%"}
             /\ InRatioRange(col, 90, 95) <=> BucketsHolding(col) = {"90-95%"}
             /\ InRatioRange(col, 80, 90) <=> BucketsHolding(col) = {"80-90%"}
             /\ InRatioRange(col, 70, 80) <=> BucketsHolding(col) = {"70-80%"}
             /\ InRatioRange(col, 60, 70) <=> BucketsHolding(col) = {"60-70%"}
             /\ InRatioRange(col, 50, 60) <=> BucketsHolding(col) = {"50-60%"}
             /\ 100 * MaxOccurrences(col) < 50 * NonNullCells(col)
                    <=> BucketsHolding(col) = {}
    /\ BucketOf(<<[key |-> "TCP", n |-> 960], [key |-> "UDP", n |-> 40]>>, 1000)
          = "95-100%"

\* A column whose ratio is exactly the edge 0.60 has been bucketed "60-70%"
C6_Witness ==
    /\ pc = "report"
    /\ NonNullCells("proto") = 5
    /\ MaxOccurrences("proto") = 3
    /\ BucketsHolding("proto") = {"60-70%"}

\* Further cases of C6 that the model reaches: the edge 0.95, ratio 0.96,
\* ratio 1.0 and a ratio below 0.50
C6_ReachesEdge95 ==
    pc = "report" /\ NonNullCells("proto") = 20 /\ MaxOccurrences("proto") = 19
C6_ReachesBelowHalf ==
    pc = "report" /\ NonNullCells("proto") = 3 /\ MaxOccurrences("proto") = 1

\* Null cells of a column among the rows read so far
NullsSeen(col) ==
    Cardinality({r \in 1..rows_read : file[r][ColIndex(header, col)] = NaN})

\* A step in which no total and no count of a value or of a label decreases
NoCountDecreases ==
    /\ \A col \in DOMAIN total_counts :
          col \in DOMAIN total_counts' /\ total_counts'[col] >= total_counts[col]
    /\ \A col \in DOMAIN col_counters : \A v \in CounterKeys(col_counters[col]) :
          CounterGet(col_counters'[col], v) >= CounterGet(col_counters[col], v)
    /\ \A lbl \in CounterKeys(label_counter) :
          CounterGet(label_counter', lbl) >= CounterGet(label_counter, lbl)

\* C14: the accumulators start empty; after each absorbed chunk and for every
\* column total_counts[col] is the sum of the counts of col_counters[col] and
\* is the number of rows seen minus the null cells of the column among them;
\* from one chunk to the next no total and no count of a value or of a label
\* decreases.
C14_TotalsInvariant ==
    /\ [](rows_read = 0 => Acc = EmptyAcc)
    /\ [](rows_read > 0 =>
             \A col \in Range(header) :
                /\ col \in DOMAIN total_counts /\ col \in DOMAIN col_counters
                /\ total_counts[col] = CounterSum(col_counters[col])
                /\ total_counts[col] = rows_read - NullsSeen(col))
    /\ [][NoCountDecreases]_vars

\* The analysis pass is between two chunks, two chunks absorbed, with a null
\* cell seen in one column and none in the other
C14_Witness ==
    /\ pc = "pass1"
    /\ rows_read = 2 * CHUNK_SIZE
    /\ rows_read < Len(file)
    /\ NullsSeen("proto") = 1
    /\ total_counts["proto"] = rows_read - 1
    /\ total_counts[header[2]] = rows_read
    /\ CounterSum(col_counters[header[2]]) = rows_read

-----------------------------------------------------------------------------
(* generate_dominance_report of Check_Handle_Dominance_Impossible_INF_values.py *)

\* labels = chunk.get("Label") or chunk.get("label"): `or` takes the truth value
\* of its left operand unless that is None, and the truth value of a Series
\* raises ValueError; with no "Label" column the left operand is None and the
\* result is chunk.get("label"), a Series or None
LabelsGetOr(hdr) ==
    IF "Label" \in Range(hdr) THEN "ValueError"
    ELSE IF "label" \in Range(hdr) THEN "label"
    ELSE "None"

\* The body of the chunk loop once labels is bound (lines 40-49): the updates
\* of Absorb, the label counter first
HdlAbsorb(acc, hdr, chunk) == Absorb(acc, hdr, chunk)

\* One iteration of the chunk loop (lines 38-49)
HdlReadChunk ==
    /\ pc = "pass1"
    /\ rows_read < Len(file)
    /\ LabelsGetOr(header) # "ValueError"
    /\ LET chunk == NextChunk(file, rows_read, CHUNK_SIZE)
           acc   == HdlAbsorb(Acc, header, chunk)
       IN  /\ col_counters' = acc.col_counters
           /\ total_counts' = acc.total_counts
           /\ label_counter' = acc.label_counter
           /\ col_value_label_counter' = acc.col_value_label_counter
           /\ rows_read' = rows_read + Len(chunk)
    /\ UNCHANGED <<inVars, pc, bucketed, notDom>>

\* Line 39 raises on the first chunk: "Error during dominance report" (lines 114-115)
HdlLabelsRaise ==
    /\ pc = "pass1"
    /\ rows_read < Len(file)
    /\ LabelsGetOr(header) = "ValueError"
    /\ pc' = "error"
    /\ UNCHANGED <<inVars, rows_read, domVars, notDom>>

\* The bucketing loop and the report (lines 51-112)
HdlBucket ==
    /\ pc = "pass1"
    /\ rows_read = Len(file)
    /\ bucketed' = Bucketed(col_counters, total_counts, header)
    /\ pc' = "report"
    /\ UNCHANGED <<inVars, rows_read, col_counters, total_counts, label_counter,
                   col_value_label_counter, notDom>>

NextDominanceHandle == HdlReadChunk \/ HdlLabelsRaise \/ HdlBucket

SpecDominanceHandle == InitDominance /\ [][NextDominanceHandle]_vars

(* Properties of that generate_dominance_report *)

\* The label counts and the per-value label counts of the whole file
LabelsReported(lblcol) ==
    /\ pc = "report"
    /\ label_counter = CounterUpdate(<<>>, DropNa(Column(header, file, lblcol)))
    /\ col_value_label_counter["proto"] =
          CounterUpdate(<<>>, ValueLabelPairs(Column(header, file, "proto"),
                                              Column(header, file, lblcol)))

\* C18: for a file whose label column is called Label the run does not end in
\* the error branch, and its report holds the label distribution and the
\* per-value label breakdown of the file, as for a column called label.
C18_LabelSameAsLowercase ==
    "Label" \in Range(header) =>
       /\ pc # "error"
       /\ pc = "report" => LabelsReported("Label")

\* What the code does for a column called label
C18_LowercaseReported ==
    "label" \in Range(header) =>
       /\ pc # "error"
       /\ pc = "report" => LabelsReported("label")

\* A file with a Label column ended in the error branch, nothing counted
C18_LabelRunFailed ==
    /\ "Label" \in Range(header)
    /\ pc = "error"
    /\ Acc = EmptyAcc
    /\ bucketed = <<>>

\* A file with a label column of several chunks reported with its label counts
C18_LowercaseRunReported ==
    /\ "label" \in Range(header)
    /\ LabelsReported("label")
    /\ Len(file) > CHUNK_SIZE
    /\ label_counter # <<>>
    /\ col_value_label_counter["proto"] # <<>>

-----------------------------------------------------------------------------
(* Checks_Which_columns_need_encoding.py *)

columns_to_check == <<"delta_start", "handshake_duration", "label">>

\* isinstance(x, str) and "not a complete handshake" in x.lower(), on the cell
\* texts of the model
IncompleteTexts == {"not a complete handshake", "Not a Complete Handshake"}
HandshakeInvalid(cell) == cell \in IncompleteTexts

EncRows ==
    { <<"0.5", "1.2", "Benign">>,
      <<"not a complete handshake", "Not a Complete Handshake", "Attack">>,
      <<"not a complete handshake", "1.2", "Benign">>,
      <<"0.5", "not a complete handshake", "Attack">> }

delta_invalid(row) == HandshakeInvalid(row[ColIndex(columns_to_check, "delta_start")])
handshake_invalid(row) ==
    HandshakeInvalid(row[ColIndex(columns_to_check, "handshake_duration")])
RowLabel(row) == row[ColIndex(columns_to_check, "label")]

\* rows_to_remove.append(chunk_start_row + idx) for the flagged rows of a chunk
FlaggedIndices(start, index, chunk) ==
    LET hit == SelectSeq([i \in DOMAIN chunk |-> i],
                         LAMBDA i : delta_invalid(chunk[i]) /\ handshake_invalid(chunk[i]))
    IN  [j \in DOMAIN hit |-> start + index[hit[j]]]

\* The labels of the rows counted in both_invalid_counter / both_valid_counter
LabelsOfBothInvalid(chunk) ==
    LET hit == SelectSeq(chunk, LAMBDA r : delta_invalid(r) /\ handshake_invalid(r))
    IN  [j \in DOMAIN hit |-> RowLabel(hit[j])]
LabelsOfBothValid(chunk) ==
    LET hit == SelectSeq(chunk, LAMBDA r : ~delta_invalid(r) /\ ~handshake_invalid(r))
    IN  [j \in DOMAIN hit |-> RowLabel(hit[j])]

InitEncoding ==
    /\ header = columns_to_check
    /\ file \in SeqsUpTo(EncRows, MaxEncRows)
    /\ CHUNK_SIZE \in 1..MaxChunk
    /\ pc = "scan"
    /\ rows_read = 0
    /\ is_first_chunk = TRUE
    /\ output_csv \in Destinations
    /\ rows_to_remove = <<>>
    /\ chunk_start_row = 0
    /\ both_valid_counter = <<>>
    /\ both_invalid_counter = <<>>
    /\ delete_confirm = ""
    /\ DomIdle /\ ValIdle /\ InfIdle /\ ImpIdle /\ IntIdle /\ MainIdle /\ ExtIdle

\* Phase 1, one chunk (lines 28-43)
EncScanChunk ==
    /\ pc = "scan"
    /\ rows_read < Len(file)
    /\ LET chunk == NextChunk(file, rows_read, CHUNK_SIZE)
           index == ChunkIndex(rows_read, chunk)
       IN  /\ rows_to_remove' =
                 rows_to_remove \o FlaggedIndices(chunk_start_row, index, chunk)
           /\ both_invalid_counter' =
                 CounterUpdate(both_invalid_counter, LabelsOfBothInvalid(chunk))
           /\ both_valid_counter' =
                 CounterUpdate(both_valid_counter, LabelsOfBothValid(chunk))
           /\ chunk_start_row' = chunk_start_row + Len(chunk)
           /\ rows_read' = rows_read + Len(chunk)
    /\ UNCHANGED <<inVars, pc, outVars, delete_confirm, notEnc>>

\* The summary and the question (lines 46-62)
EncAsk ==
    /\ pc = "scan"
    /\ rows_read = Len(file)
    /\ \E answer \in {"yes", "y", "no"} :
          /\ delete_confirm' = answer
          /\ IF answer \in {"yes", "y"}
             THEN /\ pc' = "delete"
                  /\ is_first_chunk' = TRUE
                  /\ chunk_start_row' = 0
                  /\ rows_read' = 0
             ELSE /\ pc' = "done"
                  /\ UNCHANGED <<is_first_chunk, chunk_start_row, rows_read>>
    /\ UNCHANGED <<inVars, output_csv, rows_to_remove, both_valid_counter,
                   both_invalid_counter, notEnc>>

\* chunk[mask] with mask = np.isin(chunk_indices, rows_to_remove, invert=True)
ChunkCleaned(start, chunk, remove) ==
    LET keep == SelectSeq([i \in DOMAIN chunk |-> i],
                          LAMBDA i : (start + i - 1) \notin Range(remove))
    IN  [j \in DOMAIN keep |-> chunk[keep[j]]]

\* Phase 2, one chunk (lines 64-75)
EncDeleteChunk ==
    /\ pc = "delete"
    /\ rows_read < Len(file)
    /\ LET chunk == NextChunk(file, rows_read, CHUNK_SIZE)
           chunk_cleaned == ChunkCleaned(chunk_start_row, chunk, rows_to_remove)
       IN  /\ output_csv' = IF is_first_chunk
                            THEN ToCsvWrite(header, chunk_cleaned)
                            ELSE ToCsvAppend(output_csv, chunk_cleaned)
           /\ is_first_chunk' = FALSE
           /\ chunk_start_row' = chunk_start_row + Len(chunk)
           /\ rows_read' = rows_read + Len(chunk)
    /\ UNCHANGED <<inVars, pc, rows_to_remove, both_valid_counter, both_invalid_counter,
                   delete_confirm, notEnc>>

\* "Cleaned CSV saved" (line 77)
EncSaved ==
    /\ pc = "delete"
    /\ rows_read = Len(file)
    /\ pc' = "done"
    /\ UNCHANGED <<inVars, rows_read, outVars, encVars, notEnc>>

NextEncoding == EncScanChunk \/ EncAsk \/ EncDeleteChunk \/ EncSaved

SpecEncoding == InitEncoding /\ [][NextEncoding]_vars

(* Properties of Checks_Which_columns_need_encoding.py *)

EncFlagged(row) == HandshakeInvalid(row[1]) /\ HandshakeInvalid(row[2])
EncDeleted == pc = "done" /\ delete_confirm \in {"yes", "y"}

\* C2: the indices recorded in pass 1 are the absolute 0-based positions of the
\* rows whose delta_start and handshake_duration both say 'not a complete
\* handshake', and the file written by pass 2 is the header followed by the
\* other rows in input order, for every file length and chunk size.
C2_AbsoluteIndexRemoval ==
    /\ (pc # "scan" \/ rows_read = Len(file)) =>
          rows_to_remove =
              LET hit == SelectSeq([i \in DOMAIN file |-> i], LAMBDA i : EncFlagged(file[i]))
              IN  [j \in DOMAIN hit |-> hit[j] - 1]
    /\ EncDeleted =>
          output_csv = ToCsvWrite(header, SelectSeq(file, LAMBDA r : ~EncFlagged(r)))

\* What the code does do: C2's statement holds of the files that fit in one chunk
C2_HoldsWithinOneChunk == Len(file) <= CHUNK_SIZE => C2_AbsoluteIndexRemoval

\* A flagged row of a later chunk is still in the output after the deletion
C2_FlaggedRowKept ==
    /\ EncDeleted
    /\ \E i \in DOMAIN file : EncFlagged(file[i]) /\ RowLine(file[i]) \in Range(output_csv)

-----------------------------------------------------------------------------
(* TASK 2: run_data_validation, validate_data_quality, clean_data_if_needed *)

NEVER_NEGATIVE_KEYWORDS ==
    {"port", "duration", "count", "bytes", "size", "rate", "percentage", "variance",
     "std", "total", "max", "min", "median", "mode", "mean", "iat", "active", "idle",
     "bulk", "handshake", "subflow"}
CAN_BE_NEGATIVE_KEYWORDS == {"skew", "cov", "delta"}
PORT_COLUMNS == <<"src_port", "dst_port">>

\* `kw in column_name.lower()` for the column names of the model: the keywords
\* of the two lists (and "percentage") that occur in each name
KeywordsIn ==
    [ src_port |-> {"port"}, dst_port |-> {"port"}, flow_duration |-> {"duration"},
      idle_percentage |-> {"idle", "percentage"}, delta_start |-> {"delta"},
      Label |-> {}, label |-> {} ]

is_column_never_negative(column_name) ==
    IF KeywordsIn[column_name] \cap CAN_BE_NEGATIVE_KEYWORDS # {} THEN FALSE
    ELSE KeywordsIn[column_name] \cap NEVER_NEGATIVE_KEYWORDS # {}

\* pd.to_numeric(errors='coerce') on the cell texts of the model: the number a
\* cell parses to; every other cell (text, empty) becomes NaN
NumericValue ==
    [c \in {"0", "1", "2", "3", "5", "50", "80", "150", "443", "65535", "65536",
            "70000", "-1"} |->
        CASE c = "0" -> 0 [] c = "1" -> 1 [] c = "2" -> 2 [] c = "3" -> 3 [] c = "5" -> 5
          [] c = "50" -> 50 [] c = "80" -> 80 [] c = "150" -> 150 [] c = "443" -> 443
          [] c = "65535" -> 65535 [] c = "65536" -> 65536
          [] c = "70000" -> 70000 [] c = "-1" -> 0 - 1]
Parses(cell) == cell \in DOMAIN NumericValue

\* numeric_col < 0 (False on NaN)
IsNegative(cell) == Parses(cell) /\ NumericValue[cell] < 0
\* ~numeric_col.between(low, high, inclusive='both') (between is False on NaN)
NotBetween(cell, low, high) ==
    ~(Parses(cell) /\ low <= NumericValue[cell] /\ NumericValue[cell] <= high)

\* A DataFrame: column names, index labels, rows
Frame(cols, index, rows) == [columns |-> cols, index |-> index, rows |-> rows]
FrameColumn(d, col) == [i \in DOMAIN d.rows |-> d.rows[i][ColIndex(d.columns, col)]]

\* df.rename(columns={'Label': 'label'}) when it applies (lines 129-130)
Renames(d) == "Label" \in Range(d.columns) /\ "label" \notin Range(d.columns)
Renamed(d) ==
    IF Renames(d)
    THEN [d EXCEPT !.columns = [i \in DOMAIN @ |-> IF @[i] = "Label" THEN "label" ELSE @[i]]]
    ELSE d
\* df['label'] = 'Unknown' when the frame has no 'label' column (lines 131-133)
WithLabel(d) ==
    IF "label" \notin Range(d.columns)
    THEN [d EXCEPT !.columns = Append(@, "label"),
                   !.rows = [i \in DOMAIN @ |-> Append(@[i], "Unknown")]]
    ELSE d

\* Series.value_counts().to_dict() of the labels at the positions `hit`
ValueCounts(labels, hit) ==
    [v \in {labels[i] : i \in hit} \ {NaN} |-> Cardinality({i \in hit : labels[i] = v})]

\* The never-negative test written like the two range tests, ~(numeric_col >= 0)
NegativeMaskFailClosed(cell) == ~(Parses(cell) /\ NumericValue[cell] >= 0)

\* invalid_mask = numeric_col < 0 (lines 138-139)
NegativeMask(cell) == IsNegative(cell)

\* invalid_mask of each of the three checks (lines 139, 148, 156)
InvalidMask(rule, cell) ==
    CASE rule = "negative_issues" -> NegativeMask(cell)
      [] rule = "port_issues" -> NotBetween(cell, 0, 65535)
      [] rule = "percentage_issues" -> NotBetween(cell, 0, 100)

\* {col: {'count', 'rows', 'labels'}} for the columns of `cols` with a masked row
Issues(d, cols, rule) ==
    LET hits(col) == {i \in DOMAIN d.rows : InvalidMask(rule, FrameColumn(d, col)[i])}
    IN  [col \in {c \in cols : hits(c) # {}} |->
            [ count  |-> Cardinality(hits(col)),
              rows   |-> LET pos == SelectSeq([i \in DOMAIN d.rows |-> i],
                                              LAMBDA i : i \in hits(col))
                         IN  [j \in DOMAIN pos |-> d.index[pos[j]]],
              labels |-> ValueCounts(FrameColumn(d, "label"), hits(col)) ]]

\* validate_data_quality(df): the results dictionary (lines 128-161)
validate_data_quality(d0) ==
    LET d == WithLabel(Renamed(d0))
        cols == Range(d.columns)
    IN  [ negative_issues |->
            Issues(d, {c \in cols : is_column_never_negative(c)}, "negative_issues"),
          port_issues |->
            Issues(d, Range(PORT_COLUMNS) \cap cols, "port_issues"),
          percentage_issues |->
            Issues(d, {c \in cols : "percentage" \in KeywordsIn[c]}, "percentage_issues") ]

\* The caller's frame after the call: the placeholder column is added in place
\* unless the function was working on the renamed copy
FrameAfterValidation(d0) == IF Renames(d0) THEN d0 ELSE WithLabel(d0)

\* The removal set taken from the first issue group alone
invalid_indices_negative_only(res) ==
    UNION {Range(res.negative_issues[col].rows) : col \in DOMAIN res.negative_issues}

\* invalid_indices of clean_data_if_needed (lines 177-180)
invalid_indices(res) ==
    UNION {UNION {Range(res[issue_group][col].rows) : col \in DOMAIN res[issue_group]} :
              issue_group \in DOMAIN res}

\* df.drop(index=list(invalid_indices))
DropIndex(d, labels) ==
    LET keep == SelectSeq([i \in DOMAIN d.rows |-> i], LAMBDA i : d.index[i] \notin labels)
    IN  Frame(d.columns, [j \in DOMAIN keep |-> d.index[keep[j]]],
              [j \in DOMAIN keep |-> d.rows[keep[j]]])

ValHeaders ==
    { <<"src_port", "idle_percentage", "Label">>,
      <<"flow_duration", "delta_start", "label">>,
      <<"dst_port", "flow_duration">> }
ValCells ==
    [ src_port |-> {"0", "80", "65535", "65536", "-1", "abc", NaN}, dst_port |-> {"443", "abc"},
      idle_percentage |-> {"50", "150"}, flow_duration |-> {"5", "-1", "abc"},
      delta_start |-> {"-1"}, Label |-> {"Benign", "Attack"}, label |-> {"Benign"} ]
ValRows(hdr) ==
    IF Len(hdr) = 3
    THEN {<<a, b, c>> : a \in ValCells[hdr[1]], b \in ValCells[hdr[2]], c \in ValCells[hdr[3]]}
    ELSE {<<a, b>> : a \in ValCells[hdr[1]], b \in ValCells[hdr[2]]}

\* A file of four rows whose src_port column is 80, 443, 70000, -1
ValPortHeader == <<"src_port", "idle_percentage", "Label">>
ValPortFile ==
    << <<"80", "50", "Benign">>, <<"443", "50", "Benign">>,
       <<"70000", "50", "Attack">>, <<"-1", "150", "Attack">> >>

InitValidation ==
    /\ header \in ValHeaders
    /\ file \in SeqsUpTo(ValRows(header), MaxValRows)
                  \cup (IF header = ValPortHeader THEN {ValPortFile} ELSE {})
    /\ CHUNK_SIZE \in 1..MaxChunk
    /\ pc = "load"
    /\ rows_read = 0
    /\ is_first_chunk = TRUE
    /\ output_csv \in Destinations
    /\ df = Frame(header, <<>>, <<>>)
    /\ results = <<>>
    /\ choice = ""
    /\ DomIdle /\ EncIdle /\ InfIdle /\ ImpIdle /\ IntIdle /\ MainIdle /\ ExtIdle

\* pd.concat([chunk for chunk in pd.read_csv(...)]), one chunk (line 201)
ValReadChunk ==
    /\ pc = "load"
    /\ rows_read < Len(file)
    /\ LET chunk == NextChunk(file, rows_read, CHUNK_SIZE)
       IN  /\ df' = Frame(header, df.index \o ChunkIndex(rows_read, chunk), df.rows \o chunk)
           /\ rows_read' = rows_read + Len(chunk)
    /\ UNCHANGED <<inVars, pc, outVars, results, choice, notVal>>

\* validation_results = validate_data_quality(df) (line 203)
ValValidate ==
    /\ pc = "load"
    /\ rows_read = Len(file)
    /\ results' = validate_data_quality(df)
    /\ df' = FrameAfterValidation(df)
    /\ pc' = "clean"
    /\ UNCHANGED <<inVars, rows_read, outVars, choice, notVal>>

\* clean_data_if_needed(df, validation_results) and the save (lines 204-209)
ValClean ==
    /\ pc = "clean"
    /\ IF invalid_indices(results) = {}
       THEN UNCHANGED <<choice, output_csv>>
       ELSE \E answer \in {"y", "Y", "n"} :
               /\ choice' = answer
               /\ IF answer \in {"y", "Y"}
                  THEN output_csv' =
                          LET df_clean == DropIndex(df, invalid_indices(results))
                          IN  ToCsvWrite(df_clean.columns, df_clean.rows)
                  ELSE UNCHANGED output_csv
    /\ pc' = "done"
    /\ UNCHANGED <<inVars, rows_read, is_first_chunk, df, results, notVal>>

NextValidation == ValReadChunk \/ ValValidate \/ ValClean

SpecValidation == InitValidation /\ [][NextValidation]_vars

(* Properties of run_data_validation *)

\* A cell that holds text which is no number
Unparseable(cell) == cell # NaN /\ ~Parses(cell)
RowsOfRule(rule, col) ==
    IF col \in DOMAIN results[rule] THEN Range(results[rule][col].rows) ELSE {}
Validated == pc \in {"clean", "done"}

\* C3: under each of the three rules, a cell of a checked column that does not
\* parse as a number has its row index recorded under that rule and in the
\* removal set of clean_data_if_needed.
C3_FailClosed ==
    Validated =>
       \A i \in DOMAIN file : \A c \in DOMAIN header :
          Unparseable(file[i][c]) =>
             /\ is_column_never_negative(header[c]) =>
                   /\ (i - 1) \in RowsOfRule("negative_issues", header[c])
                   /\ (i - 1) \in invalid_indices(results)
             /\ header[c] \in Range(PORT_COLUMNS) =>
                   /\ (i - 1) \in RowsOfRule("port_issues", header[c])
                   /\ (i - 1) \in invalid_indices(results)
             /\ "percentage" \in KeywordsIn[header[c]] =>
                   /\ (i - 1) \in RowsOfRule("percentage_issues", header[c])
                   /\ (i - 1) \in invalid_indices(results)

\* What the code does do: the port rule and the percentage rule are fail-closed
C3_RangeRulesFailClosed ==
    Validated =>
       \A i \in DOMAIN file : \A c \in DOMAIN header :
          Unparseable(file[i][c]) =>
             /\ header[c] \in Range(PORT_COLUMNS) =>
                   (i - 1) \in RowsOfRule("port_issues", header[c])
             /\ "percentage" \in KeywordsIn[header[c]] =>
                   (i - 1) \in RowsOfRule("percentage_issues", header[c])

\* An unparseable cell in a never-negative column and a file saved with its row
C3_UnparseableRowSaved ==
    /\ pc = "done" /\ choice \in {"y", "Y"}
    /\ "flow_duration" \in Range(header)
    /\ \E i \in DOMAIN file :
          /\ file[i][ColIndex(header, "flow_duration")] = "abc"
          /\ RowLine(file[i]) \in Range(output_csv)

\* The rows of the saved file, and the cell of a row of the input file
SavedRows == [j \in 1..(Len(output_csv) - 1) |-> output_csv[j + 1].cells]
Saved == pc = "done" /\ choice \in {"y", "Y"}
CellOf(i, col) == file[i][ColIndex(header, col)]
InRange(cell, low, high) ==
    Parses(cell) /\ low <= NumericValue[cell] /\ NumericValue[cell] <= high
\* The row indices of the input file that break some rule in some column
ViolatesSome(i) ==
    \E c \in DOMAIN header :
       \/ is_column_never_negative(header[c]) /\ IsNegative(file[i][c])
       \/ header[c] \in Range(PORT_COLUMNS) /\ ~InRange(file[i][c], 0, 65535)
       \/ "percentage" \in KeywordsIn[header[c]] /\ ~InRange(file[i][c], 0, 100)
AllCounts ==
    {<<rule, col>> : rule \in DOMAIN results, col \in Range(header)}
RECURSIVE SumCounts(_)
SumCounts(pairs) ==
    IF pairs = {} THEN 0
    ELSE LET p == CHOOSE q \in pairs : TRUE
         IN  Cardinality(RowsOfRule(p[1], p[2])) + SumCounts(pairs \ {p})

\* C12: the removal set is the union of the rows recorded under any rule and
\* column, which are the rows that break some rule; each count is the number of
\* rows recorded under its own rule and column; the saved file holds the rows
\* outside the union, in input order, so that the rows removed number the
\* distinct recorded indices, however many rules a row breaks.
C12_RemovesUnionOnce ==
    Validated =>
       LET flagged == UNION {RowsOfRule(p[1], p[2]) : p \in AllCounts}
           keep == SelectSeq([i \in DOMAIN file |-> i], LAMBDA i : (i - 1) \notin flagged)
       IN  /\ invalid_indices(results) = flagged
           /\ flagged = {i - 1 : i \in {k \in DOMAIN file : ViolatesSome(k)}}
           /\ \A rule \in DOMAIN results : \A col \in DOMAIN results[rule] :
                  results[rule][col].count = Cardinality(RowsOfRule(rule, col))
           /\ (Saved /\ flagged # {}) =>
                  /\ Len(file) - Len(SavedRows) = Cardinality(flagged)
                  /\ Len(SavedRows) = Len(keep)
                  /\ \A j \in DOMAIN keep :
                        SubSeq(SavedRows[j], 1, Len(header)) = file[keep[j]]

\* The fourth row of the four-row file breaks three rules in two columns and
\* the third one rule: four recordings, two rows removed, two rows saved
C12_Witness ==
    /\ Saved
    /\ file = ValPortFile
    /\ CHUNK_SIZE = 3
    /\ SumCounts(AllCounts) = 4
    /\ invalid_indices(results) = {2, 3}
    /\ Len(SavedRows) = 2

\* C13 as claimed: for a port column the recorded rows are exactly the indices
\* of the cells that are numbers below 0 or above 65535.
C13_PortRowsNumericOutOfRange ==
    Validated =>
       \A col \in Range(PORT_COLUMNS) \cap Range(header) :
          RowsOfRule("port_issues", col) =
             {i - 1 : i \in {k \in DOMAIN file :
                                /\ Parses(CellOf(k, col))
                                /\ \/ NumericValue[CellOf(k, col)] < 0
                                   \/ NumericValue[CellOf(k, col)] > 65535}}

\* C13 as amended: for a port column the recorded rows are exactly the
\* absolute indices of the cells that are not a number within [0, 65535]: the
\* numbers below 0 or above 65535 and the cells that are empty or do not parse;
\* a number within [0, 65535] is never recorded, and for
\* src_port = [80, 443, 70000, -1] the rows recorded are 2 and 3.
C13_PortRowsNotInRange ==
    Validated =>
       /\ \A col \in Range(PORT_COLUMNS) \cap Range(header) :
             /\ RowsOfRule("port_issues", col) =
                   {i - 1 : i \in {k \in DOMAIN file : ~InRange(CellOf(k, col), 0, 65535)}}
             /\ \A k \in DOMAIN file :
                   InRange(CellOf(k, col), 0, 65535) =>
                      (k - 1) \notin RowsOfRule("port_issues", col)
       /\ file = ValPortFile => results.port_issues.src_port.rows = <<2, 3>>

\* The four-row file read in chunks of three rows: the row of the second chunk
\* is recorded under its index in the file
C13_Witness ==
    /\ Validated
    /\ file = ValPortFile
    /\ CHUNK_SIZE = 3
    /\ results.port_issues.src_port.rows = <<2, 3>>
    /\ results.port_issues.src_port.count = 2

\* An empty port cell next to the two ends of the range: only the empty one is
\* recorded
C13_EmptyPortRecorded ==
    /\ Validated
    /\ header = ValPortHeader
    /\ Len(file) = 2
    /\ CellOf(1, "src_port") = NaN /\ CellOf(2, "src_port") = "65535"
    /\ RowsOfRule("port_issues", "src_port") = {0}

\* C17: the saved file's header is the input file's header.
C17_OutputSchemaIsInputSchema ==
    (Saved /\ invalid_indices(results) # {}) => output_csv[1] = HeaderLine(header)

\* What the code does for a file with a column called Label: the saved header
\* is the input header
C17_LabelKept ==
    (Saved /\ invalid_indices(results) # {} /\ "Label" \in Range(header)) =>
       output_csv[1] = HeaderLine(header)

\* A file without a label column saved with a column the input did not have
C17_PlaceholderSaved ==
    /\ Saved
    /\ header = <<"dst_port", "flow_duration">>
    /\ output_csv[1] = HeaderLine(<<"dst_port", "flow_duration", "label">>)
    /\ \E j \in DOMAIN SavedRows : SavedRows[j][3] = "Unknown"

-----------------------------------------------------------------------------
(* TASK 3: run_inf_column_removal *)

\* INF_THRESHOLD = 0.30, in percent
INF_THRESHOLD == 30

\* np.isinf(pd.to_numeric(cell, errors='coerce')) on the cell texts of the model:
\* "inf" and "-inf" parse to the two infinities, an empty or textual cell to NaN
InfTexts == {"inf", "-inf"}

\* The cell test written so that NaN counts as well
IsInfOrNull(cell) == cell \in InfTexts \/ cell = NaN

IsInf(cell) == cell \in InfTexts

\* chunk.apply(pd.to_numeric, errors='coerce').pipe(np.isinf).sum()
inf_in_chunk(hdr, chunk) ==
    [col \in Range(hdr) |->
        Cardinality({i \in DOMAIN chunk : IsInf(Column(hdr, chunk, col)[i])})]

\* inf_counts.add(inf_in_chunk, fill_value=0)
SeriesAdd(a, b) ==
    [col \in DOMAIN a \cup DOMAIN b |-> GetOr(a, col, 0) + GetOr(b, col, 0)]

\* The comparison written >=
OverThresholdInclusive(count, total) == 100 * count >= INF_THRESHOLD * total

\* inf_counts / total_rows > INF_THRESHOLD: the quotient is a double, and it is
\* the double of the literal 0.30 exactly when count / total is 3/10, so the
\* comparison is the exact one
OverThreshold(count, total) == 100 * count > INF_THRESHOLD * total

\* inf_percentages[inf_percentages > INF_THRESHOLD].index.tolist(); the list is
\* used only as a set of names
ColumnsOver(counts, total) == {col \in DOMAIN counts : OverThreshold(counts[col], total)}

\* chunk.drop(columns=..., errors='ignore') that leaves the chunk as it was
\* (the call without inplace=True)
DropColumnsNotInPlace(hdr, rows, cols) == [columns |-> hdr, rows |-> rows]

\* chunk.drop(columns=columns_to_delete, inplace=True, errors='ignore')
DropColumns(hdr, rows, cols) ==
    LET keep == SelectSeq([i \in DOMAIN hdr |-> i], LAMBDA i : hdr[i] \notin cols)
    IN  [ columns |-> [j \in DOMAIN keep |-> hdr[keep[j]]],
          rows    |-> [r \in DOMAIN rows |-> [j \in DOMAIN keep |-> rows[r][keep[j]]]] ]

\* The two to_csv calls with every chunk written with its header
RewriteOutputHeaderEveryChunk(first, dest, cols, rows) ==
    IF first THEN ToCsvWrite(cols, rows) ELSE dest \o ToCsvWrite(cols, rows)

\* Every chunk written with mode='w'
RewriteOutputModeW(first, dest, cols, rows) == ToCsvWrite(cols, rows)

\* if is_first_chunk: to_csv(mode='w') else: to_csv(mode='a', header=False)
RewriteOutput(first, dest, cols, rows) ==
    IF first THEN ToCsvWrite(cols, rows) ELSE ToCsvAppend(dest, rows)

InfHeader == <<"rate", "size", "label">>
InfCells == [rate |-> {"1", "inf", "-inf", NaN}, size |-> {"2", "inf", "x"},
             label |-> {"Benign"}]
InfRows == {<<a, b, c>> : a \in InfCells.rate, b \in InfCells.size, c \in InfCells.label}

\* Long files: a run of rows with an infinite rate and no size, and a run of
\* rows with a finite rate and an infinite size, in either order
InfRunFiles ==
    LET A == <<"inf", NaN, "Benign">>
        B == <<"1", "inf", "Attack">>
    IN  {Repeat(A, k) \o Repeat(B, m) : k \in 0..MaxLongRows, m \in 0..MaxLongRows}
          \cup {Repeat(B, m) \o Repeat(A, k) : k \in 0..MaxLongRows, m \in 0..MaxLongRows}
InfFiles ==
    SeqsUpTo(InfRows, MaxInfRows)
        \cup {f \in InfRunFiles : Len(f) >= 1 /\ Len(f) <= MaxLongRows}

InitInfRemoval ==
    /\ header = InfHeader
    /\ file \in InfFiles
    /\ CHUNK_SIZE \in 1..MaxChunk
    /\ pc = "pass1"
    /\ rows_read = 0
    /\ is_first_chunk = TRUE
    /\ output_csv \in Destinations
    /\ inf_counts = <<>>
    /\ total_rows = 0
    /\ columns_to_delete = {}
    /\ user_input = ""
    /\ medians = <<>>
    /\ DomIdle /\ EncIdle /\ ValIdle /\ IntIdle /\ MainIdle /\ ExtIdle

\* Pass 1, one chunk (lines 227-230)
InfAnalyseChunk ==
    /\ pc = "pass1"
    /\ rows_read < Len(file)
    /\ LET chunk == NextChunk(file, rows_read, CHUNK_SIZE)
       IN  /\ total_rows' = total_rows + Len(chunk)
           /\ inf_counts' = SeriesAdd(inf_counts, inf_in_chunk(header, chunk))
           /\ rows_read' = rows_read + Len(chunk)
    /\ UNCHANGED <<inVars, pc, outVars, columns_to_delete, user_input, notInf>>

\* What may be typed at the question, and str.lower() of it
Answers == {"yes", "y", "no", "YES", ""}
LowerAnswer(answer) == IF answer = "YES" THEN "yes" ELSE answer

\* The test written so that only a refusal cancels
ConfirmedUnlessNo(answer) == answer # "no"

\* user_input in ['yes', 'y']
Confirmed(answer) == answer \in {"yes", "y"}

\* The loop over the reader left after its first chunk
ReaderStopsAfterOneChunk(rows, pos) == pos >= 1

\* for chunk in pd.read_csv(...): the loop ends when every row has been yielded
ReaderExhausted(rows, pos) == pos = Len(rows)

\* The decision, the report and the question (lines 232-255)
InfDecide ==
    /\ pc = "pass1"
    /\ ReaderExhausted(file, rows_read)
    /\ columns_to_delete' = ColumnsOver(inf_counts, total_rows)
    /\ IF columns_to_delete' = {}
       THEN /\ pc' = "no_action"
            /\ UNCHANGED <<user_input, is_first_chunk, rows_read>>
       ELSE \E answer \in Answers :
               /\ user_input' = LowerAnswer(answer)
               /\ IF Confirmed(user_input')
                  THEN pc' = "pass2" /\ is_first_chunk' = TRUE /\ rows_read' = 0
                  ELSE pc' = "cancelled" /\ UNCHANGED <<is_first_chunk, rows_read>>
    /\ UNCHANGED <<inVars, output_csv, inf_counts, total_rows, notInf>>

\* pd.read_csv raises while pass 1 reads: the except of lines 234-236 returns
InfAnalyseFails ==
    /\ pc = "pass1"
    /\ rows_read < Len(file)
    /\ pc' = "analysis_failed"
    /\ UNCHANGED <<inVars, rows_read, outVars, infVars, notInf>>

\* Pass 2, one chunk (lines 257-263)
InfRewriteChunk ==
    /\ pc = "pass2"
    /\ rows_read < Len(file)
    /\ LET chunk == DropColumns(header, NextChunk(file, rows_read, CHUNK_SIZE),
                                columns_to_delete)
       IN  /\ output_csv' =
                 RewriteOutput(is_first_chunk, output_csv, chunk.columns, chunk.rows)
           /\ is_first_chunk' = FALSE
           /\ rows_read' = rows_read + Len(chunk.rows)
    /\ UNCHANGED <<inVars, pc, infVars, notInf>>

\* "Successfully created" (line 264)
InfCreated ==
    /\ pc = "pass2"
    /\ rows_read = Len(file)
    /\ pc' = "created"
    /\ UNCHANGED <<inVars, rows_read, outVars, infVars, notInf>>

\* pd.read_csv or to_csv raises while pass 2 runs: the except of lines 265-266
InfRewriteFails ==
    /\ pc = "pass2"
    /\ rows_read < Len(file)
    /\ pc' = "rewrite_failed"
    /\ UNCHANGED <<inVars, rows_read, outVars, infVars, notInf>>

NextInfRemoval ==
    \/ InfAnalyseChunk \/ InfAnalyseFails \/ InfDecide
    \/ InfRewriteChunk \/ InfRewriteFails \/ InfCreated

SpecInfRemoval == InitInfRemoval /\ [][NextInfRemoval]_vars

(* Properties of run_inf_column_removal *)

\* Cells of a column of the input file, counted on the file
InfCellsOf(col) ==
    Cardinality({r \in DOMAIN file : file[r][ColIndex(header, col)] \in {"inf", "-inf"}})
NullCellsOf(col) ==
    Cardinality({r \in DOMAIN file : file[r][ColIndex(header, col)] = NaN})
InfDecided == pc \in {"no_action", "cancelled", "pass2", "created"}

C5_StrictOnTotals ==
    /\ pc = "pass1" => columns_to_delete = {}
    /\ InfDecided =>
          \A col \in Range(header) :
             /\ 10 * InfCellsOf(col) = 3 * Len(file) => col \notin columns_to_delete
             /\ 10 * InfCellsOf(col) < 3 * Len(file) => col \notin columns_to_delete
             /\ 10 * InfCellsOf(col) > 3 * Len(file) => col \in columns_to_delete

\* 3 infinite cells of 10, all of them in the first chunk, and the column kept
C5_Witness ==
    /\ InfDecided
    /\ Len(file) = 10
    /\ InfCellsOf("rate") = 3
    /\ IsInf(file[1][1]) /\ IsInf(file[2][1]) /\ IsInf(file[3][1])
    /\ CHUNK_SIZE = 3
    /\ "rate" \notin columns_to_delete
    /\ "size" \in columns_to_delete

\* C9: once the first chunk of the rewrite is written, the destination holds
\* one header line, its first line, followed by the rows written so far and
\* nothing of what it held before.
C9_SingleHeader ==
    (pc \in {"pass2", "created"} /\ ~is_first_chunk) =>
       /\ Len(output_csv) = 1 + rows_read
       /\ output_csv[1].kind = "header"
       /\ \A i \in 2..Len(output_csv) : output_csv[i].kind = "row"

\* A rewrite of three chunks or more has finished
C9_Witness ==
    /\ pc = "created"
    /\ Len(file) > 2 * CHUNK_SIZE
    /\ Len(output_csv) = 1 + Len(file)

\* C10: the finished output is the input header without the flagged columns,
\* the others in their original order, followed by every input row once, in
\* input order, without the cells of the flagged columns.
C10_RowsAndColumnsKept ==
    pc = "created" =>
       LET kept == {c \in DOMAIN header : header[c] \notin columns_to_delete}
           Project(cells) ==
               SelectSeq([c \in DOMAIN header |-> <<c, cells[c]>>],
                         LAMBDA p : p[1] \in kept)
           Cells(cells) == [j \in DOMAIN Project(cells) |-> Project(cells)[j][2]]
       IN  /\ Len(output_csv) = 1 + Len(file)
           /\ output_csv[1] = HeaderLine(Cells(header))
           /\ Range(output_csv[1].cells) \cap columns_to_delete = {}
           /\ \A r \in DOMAIN file : output_csv[r + 1] = RowLine(Cells(file[r]))

\* A rewrite of several chunks that dropped one column and kept the two around it
C10_Witness ==
    /\ pc = "created"
    /\ Len(file) > CHUNK_SIZE
    /\ columns_to_delete = {"size"}
    /\ output_csv[1] = HeaderLine(<<"rate", "label">>)

\* C11: the output file is written only by pass 2, which is entered only from a
\* finished pass 1 with a non-empty columns_to_delete and the answer yes or y;
\* an empty set ends as "no action needed", any other answer as cancelled, and
\* these two outcomes and a failed pass 1 are final: nothing is created or
\* modified in them.
C11_WritesOnlyWhenConfirmed ==
    /\ [][output_csv' # output_csv =>
             /\ pc = "pass2"
             /\ total_rows = Len(file)
             /\ columns_to_delete # {}
             /\ user_input \in {"yes", "y"}]_vars
    /\ [][pc = "pass1" /\ pc' # "pass1" =>
             \/ pc' = "analysis_failed" /\ rows_read < Len(file)
             \/ pc' = "no_action" /\ columns_to_delete' = {}
             \/ /\ pc' = "cancelled" /\ columns_to_delete' # {}
                /\ user_input' \notin {"yes", "y"}
             \/ /\ pc' = "pass2" /\ columns_to_delete' # {}
                /\ user_input' \in {"yes", "y"}]_vars
    /\ [][pc \notin {"no_action", "cancelled", "analysis_failed"}]_vars

\* A file of several chunks with a flagged column, the question answered with
\* an empty line, and the older output still in place
C11_Witness ==
    /\ pc = "cancelled"
    /\ Len(file) > CHUNK_SIZE
    /\ columns_to_delete # {}
    /\ user_input = ""
    /\ output_csv = StaleFile

\* C15: pass 2 is entered only from a pass 1 that has read every row;
\* columns_to_delete is then the set derived from the counts of the whole file,
\* it does not change (nor do the counts) while pass 2 runs, and every line
\* pass 2 writes lacks exactly those columns.
C15_DecisionsFrozen ==
    /\ [][pc # "pass2" /\ pc' = "pass2" =>
             pc = "pass1" /\ rows_read = Len(file) /\ rows_read' = 0]_vars
    /\ [](pc \in {"pass2", "created", "rewrite_failed"} =>
             /\ total_rows = Len(file)
             /\ \A col \in Range(header) : inf_counts[col] = InfCellsOf(col)
             /\ columns_to_delete =
                   {col \in Range(header) : 100 * inf_counts[col] > 30 * total_rows}
             /\ \A i \in DOMAIN output_csv :
                   ~is_first_chunk =>
                      /\ Range(output_csv[i].cells) \cap columns_to_delete = {}
                      /\ Len(output_csv[i].cells) =
                            Len(header) - Cardinality(columns_to_delete))
    /\ [][pc = "pass2" =>
             /\ columns_to_delete' = columns_to_delete
             /\ inf_counts' = inf_counts
             /\ total_rows' = total_rows]_vars

\* The third chunk of a rewrite is being written with the set decided before
\* the first one
C15_Witness ==
    /\ pc = "pass2"
    /\ rows_read >= 2 * CHUNK_SIZE
    /\ rows_read < Len(file)
    /\ columns_to_delete = {"rate"}
    /\ Len(output_csv) = 1 + rows_read

-----------------------------------------------------------------------------
(* TASK 5: run_inf_imputation (Check_Handle_Dominance_Impossible_INF_values.py) *)

\* The finite numbers of a column: pd.to_numeric(series, errors='coerce')
\* .replace([np.inf, -np.inf], np.nan) without its NaN
FiniteValues(values) ==
    LET fin == SelectSeq(values, LAMBDA c : Parses(c))
    IN  [j \in DOMAIN fin |-> NumericValue[fin[j]]]

RECURSIVE SortedInsert(_, _)
SortedInsert(x, s) ==
    IF s = <<>> THEN <<x>>
    ELSE IF x <= Head(s) THEN <<x>> \o s
    ELSE <<Head(s)>> \o SortedInsert(x, Tail(s))

RECURSIVE Sorted(_)
Sorted(s) == IF s = <<>> THEN <<>> ELSE SortedInsert(Head(s), Sorted(Tail(s)))

\* A median that takes the lower of the two middle values of an even count
MedianLowerMiddle(values) ==
    LET srt == Sorted(FiniteValues(values))
        n == Len(srt)
    IN  IF n = 0 THEN [defined |-> FALSE, twice |-> 0]
        ELSE [defined |-> TRUE, twice |-> 2 * srt[(n + 1) \div 2]]

\* Series.median(): NaN skipped; the middle value, or the mean of the two
\* middle values, kept exact as twice the median; undefined (NaN) when the
\* column has no finite value
Median(values) ==
    LET srt == Sorted(FiniteValues(values))
        n == Len(srt)
    IN  IF n = 0 THEN [defined |-> FALSE, twice |-> 0]
        ELSE IF n % 2 = 1 THEN [defined |-> TRUE, twice |-> 2 * srt[(n + 1) \div 2]]
        ELSE [defined |-> TRUE, twice |-> srt[n \div 2] + srt[n \div 2 + 1]]

\* The text to_csv writes for a float, given twice its value
FloatText(twice) ==
    CASE twice = 2 -> "1.0" [] twice = 3 -> "1.5" [] twice = 4 -> "2.0"
      [] twice = 5 -> "2.5" [] twice = 6 -> "3.0" [] twice = 7 -> "3.5"
      [] twice = 8 -> "4.0" [] twice = 9 -> "4.5" [] twice = 10 -> "5.0"

\* The replace that leaves a column without a median as it was read
ImputedColumnSkipUndefined(values, median_val) ==
    IF ~median_val.defined THEN values
    ELSE LET is_int == \A i \in DOMAIN values : Parses(values[i])
         IN  [i \in DOMAIN values |->
                 IF IsInf(values[i]) THEN FloatText(median_val.twice)
                 ELSE IF ~Parses(values[i]) THEN NaN
                 ELSE IF is_int THEN values[i]
                 ELSE FloatText(2 * NumericValue[values[i]])]

\* pd.to_numeric(chunk[col], errors='coerce').replace([np.inf, -np.inf], median_val)
\* as to_csv writes it: text and empty cells are NaN, an infinite cell is the
\* median (NaN when the median is), a number is itself, written as an integer
\* when the whole chunk column is integers and as a float otherwise
ImputedColumn(values, median_val) ==
    LET is_int == \A i \in DOMAIN values : Parses(values[i])
    IN  [i \in DOMAIN values |->
            IF IsInf(values[i])
            THEN (IF median_val.defined THEN FloatText(median_val.twice) ELSE NaN)
            ELSE IF ~Parses(values[i]) THEN NaN
            ELSE IF is_int THEN values[i]
            ELSE FloatText(2 * NumericValue[values[i]])]

\* The chunk after `for col, median_val in medians.items()` (lines 296-298)
ImputedChunk(hdr, chunk, meds) ==
    [r \in DOMAIN chunk |->
        [c \in DOMAIN hdr |->
            IF hdr[c] \in DOMAIN meds
            THEN ImputedColumn(Column(hdr, chunk, hdr[c]), meds[hdr[c]])[r]
            ELSE chunk[r][c]]]

ImpHeader == <<"rate", "size", "label">>
ImpCells == [rate |-> {"1", "2", "3", "inf", "-inf", NaN, "x"}, size |-> {"2", "inf"},
             label |-> {"Benign"}]
ImpRows == {<<a, b, c>> : a \in ImpCells.rate, b \in ImpCells.size, c \in ImpCells.label}
\* Longer files that vary in one column
ImpLongRows == {<<a, "2", "Attack">> : a \in {"1", "3", "5", "inf"}}
ImpFiles == SeqsUpTo(ImpRows, MaxImpRows) \cup SeqsUpTo(ImpLongRows, MaxImpLong)

InitImputation ==
    /\ header = ImpHeader
    /\ file \in ImpFiles
    /\ CHUNK_SIZE \in 1..MaxChunk
    /\ pc = "phase1"
    /\ rows_read = 0
    /\ is_first_chunk = TRUE
    /\ output_csv \in Destinations
    /\ inf_counts = <<>>
    /\ medians = <<>>
    /\ total_rows = 0 /\ columns_to_delete = {} /\ user_input = ""
    /\ DomIdle /\ EncIdle /\ ValIdle /\ IntIdle /\ MainIdle /\ ExtIdle

\* Phase 1, one chunk of the count of infinite cells (lines 276-277)
ImpCountChunk ==
    /\ pc = "phase1"
    /\ rows_read < Len(file)
    /\ LET chunk == NextChunk(file, rows_read, CHUNK_SIZE)
       IN  /\ inf_counts' = SeriesAdd(inf_counts, inf_in_chunk(header, chunk))
           /\ rows_read' = rows_read + Len(chunk)
    /\ UNCHANGED <<inVars, pc, outVars, medians, notImp>>

\* cols_to_process and the medians, each from the whole column (lines 278-294)
ImpMedians ==
    /\ pc = "phase1"
    /\ rows_read = Len(file)
    /\ LET cols_to_process == {col \in DOMAIN inf_counts : inf_counts[col] > 0}
       IN  IF cols_to_process = {}
           THEN /\ pc' = "nothing_to_impute"
                /\ UNCHANGED <<medians, is_first_chunk, rows_read>>
           ELSE /\ medians' = [col \in cols_to_process |->
                                  Median(Column(header, file, col))]
                /\ pc' = "phase2"
                /\ is_first_chunk' = TRUE
                /\ rows_read' = 0
    /\ UNCHANGED <<inVars, output_csv, inf_counts, notImp>>

\* Phase 2, one chunk (lines 295-303)
ImpRewriteChunk ==
    /\ pc = "phase2"
    /\ rows_read < Len(file)
    /\ LET chunk == NextChunk(file, rows_read, CHUNK_SIZE)
       IN  /\ output_csv' = RewriteOutput(is_first_chunk, output_csv, header,
                                          ImputedChunk(header, chunk, medians))
           /\ is_first_chunk' = FALSE
           /\ rows_read' = rows_read + Len(chunk)
    /\ UNCHANGED <<inVars, pc, inf_counts, medians, notImp>>

\* "Successfully created" (line 304)
ImpCreated ==
    /\ pc = "phase2"
    /\ rows_read = Len(file)
    /\ pc' = "created"
    /\ UNCHANGED <<inVars, rows_read, outVars, inf_counts, medians, notImp>>

NextImputation == ImpCountChunk \/ ImpMedians \/ ImpRewriteChunk \/ ImpCreated

SpecImputation == InitImputation /\ [][NextImputation]_vars

(* Properties of run_inf_imputation *)

\* The finite numbers of a column of the input file, by row
FiniteRows(col) == {r \in DOMAIN file : Parses(file[r][ColIndex(header, col)])}
ValueAt(col, r) == NumericValue[file[r][ColIndex(header, col)]]
\* x is the value of rank k among the finite numbers of the column
HasRank(col, x, k) ==
    /\ Cardinality({r \in FiniteRows(col) : ValueAt(col, r) < x}) < k
    /\ k <= Cardinality({r \in FiniteRows(col) : ValueAt(col, r) <= x})
\* m2 is twice the median of the finite numbers of the column
IsTwiceMedian(col, m2) ==
    LET n == Cardinality(FiniteRows(col))
    IN  \E lo, hi \in {ValueAt(col, r) : r \in FiniteRows(col)} :
           /\ HasRank(col, lo, (n + 1) \div 2)
           /\ HasRank(col, hi, n \div 2 + 1)
           /\ m2 = lo + hi
HasInf(col) == \E r \in DOMAIN file : file[r][ColIndex(header, col)] \in {"inf", "-inf"}
OutputCell(r, col) == output_csv[r + 1].cells[ColIndex(header, col)]

\* C7: in the finished output, in every column that holds an infinite cell and
\* a finite number, each +inf and -inf cell holds the median of the column's
\* finite numbers over the whole file, the same value in every chunk.
C7_InfBecomesMedian ==
    pc = "created" =>
       \A col \in Range(header) :
          (HasInf(col) /\ FiniteRows(col) # {}) =>
             \E m2 \in 2..10 :
                /\ IsTwiceMedian(col, m2)
                /\ \A r \in DOMAIN file :
                      file[r][ColIndex(header, col)] \in {"inf", "-inf"}
                         => OutputCell(r, col) = FloatText(m2)

\* [1, inf, 3, inf, 5] read in chunks of two has become [1, 3, 3, 3, 5] (the last
\* chunk holds integers only and is written as integers)
C7_Witness ==
    /\ pc = "created"
    /\ CHUNK_SIZE = 2
    /\ Column(header, file, "rate") = <<"1", "inf", "3", "inf", "5">>
    /\ [r \in 1..5 |-> OutputCell(r, "rate")] = <<"1.0", "3.0", "3.0", "3.0", "5">>

\* C8: a column with infinite cells and no finite number gets no substitution
\* value and its cells are written as they were read, the infinite cells
\* still infinite.
C8_UndefinedLeftUntouched ==
    pc = "created" =>
       \A col \in Range(header) :
          (HasInf(col) /\ FiniteRows(col) = {}) =>
             /\ col \in DOMAIN medians => ~medians[col].defined
             /\ \A r \in DOMAIN file :
                   OutputCell(r, col) = file[r][ColIndex(header, col)]

\* An infinite cell of a column without finite numbers was written empty
C8_InfWrittenEmpty ==
    /\ pc = "created"
    /\ FiniteRows("rate") = {}
    /\ \E r \in DOMAIN file : file[r][1] = "inf" /\ OutputCell(r, "rate") = NaN

\* The output cell stands for the value of the input cell: the same text, or
\* the same number written as a float
SameValue(in_cell, out_cell) ==
    \/ out_cell = in_cell
    \/ Parses(in_cell) /\ NumericValue[in_cell] > 0
          /\ out_cell = FloatText(2 * NumericValue[in_cell])

\* C22: in the finished output of the imputation every cell that was not +inf
\* or -inf in the input (a number, an empty cell, a text; in imputed and other
\* columns alike) has the value it had in the input, and the rows are as many
\* and in the same order.
C22_OnlyInfCellsChange ==
    pc = "created" =>
       /\ Len(output_csv) = Len(file) + 1
       /\ \A r \in DOMAIN file : \A c \in DOMAIN header :
             ~IsInf(file[r][c]) => SameValue(file[r][c], OutputCell(r, header[c]))

\* A text cell of an imputed column was written empty
C22_TextWrittenEmpty ==
    /\ pc = "created"
    /\ Len(file) = 2
    /\ file[1][1] = "x" /\ file[2][1] = "inf"
    /\ OutputCell(1, "rate") = NaN

-----------------------------------------------------------------------------
(* Deletes_Mentioned_Columns.py *)

columns_to_remove == <<"flow_id", "src_ip", "dst_ip", "timestamp">>

\* pd.read_csv on the cell texts of the model.  An empty cell and the markers
\* of missing data are read as NaN; a column of a chunk whose other cells are
\* all numbers becomes int64 when it has no NaN and only integers, float64
\* otherwise; a column with any other text stays text (object), its NaN apart.
NaValues == {NaN, "NaN"}
IntTexts == {"1", "2"}
FloatTexts == {"2.5", "Infinity"}
ColumnDtype(values) ==
    IF \E i \in DOMAIN values : values[i] \notin NaValues \cup IntTexts \cup FloatTexts
    THEN "object"
    ELSE IF \A i \in DOMAIN values : values[i] \in IntTexts THEN "int64"
    ELSE "float64"

\* to_csv of a float64 value
FloatRepr(cell) ==
    CASE cell = "1" -> "1.0" [] cell = "2" -> "2.0" [] cell = "2.5" -> "2.5"
      [] cell = "Infinity" -> "inf"

\* A column of a chunk as to_csv writes it after read_csv has parsed it
WrittenColumn(values) ==
    LET dtype == ColumnDtype(values)
    IN  [i \in DOMAIN values |->
            IF values[i] \in NaValues THEN NaN
            ELSE IF dtype = "float64" THEN FloatRepr(values[i])
            ELSE values[i]]

\* The chunk read and written back, column by column
WrittenChunk(hdr, chunk) ==
    [r \in DOMAIN chunk |->
        [c \in DOMAIN hdr |-> WrittenColumn(Column(hdr, chunk, hdr[c]))[r]]]

DelHeaders ==
    { <<"rate", "size", "label">>, <<"flow_id", "rate", "label">>,
      <<"src_ip", "rate", "timestamp">> }
DelCells ==
    [ rate |-> {"1", "2.5", NaN, "NaN"}, size |-> {"2", "Infinity", "x"},
      label |-> {"Benign"}, flow_id |-> {"f1"}, src_ip |-> {"10.0.0.1"},
      timestamp |-> {"t1"} ]
DelRows(hdr) ==
    {<<a, b, c>> : a \in DelCells[hdr[1]], b \in DelCells[hdr[2]], c \in DelCells[hdr[3]]}

InitDeleteColumns ==
    /\ header \in DelHeaders
    /\ file \in SeqsUpTo(DelRows(header), MaxDelRows)
    /\ CHUNK_SIZE \in 1..MaxChunk
    /\ pc = "rewrite"
    /\ rows_read = 0
    /\ is_first_chunk = TRUE
    /\ output_csv \in Destinations
    /\ DomIdle /\ EncIdle /\ ValIdle /\ InfIdle /\ ImpIdle /\ IntIdle /\ MainIdle /\ ExtIdle

\* One chunk of the loop of lines 46-58
DelRewriteChunk ==
    /\ pc = "rewrite"
    /\ rows_read < Len(file)
    /\ LET read == NextChunk(file, rows_read, CHUNK_SIZE)
           chunk == DropColumns(header, WrittenChunk(header, read),
                                Range(columns_to_remove))
       IN  /\ output_csv' =
                 RewriteOutput(is_first_chunk, output_csv, chunk.columns, chunk.rows)
           /\ is_first_chunk' = FALSE
           /\ rows_read' = rows_read + Len(read)
    /\ UNCHANGED <<inVars, pc, notDel>>

\* "Successfully created" (line 60)
DelCreated ==
    /\ pc = "rewrite"
    /\ rows_read = Len(file)
    /\ pc' = "created"
    /\ UNCHANGED <<inVars, rows_read, outVars, notDel>>

NextDeleteColumns == DelRewriteChunk \/ DelCreated

SpecDeleteColumns == InitDeleteColumns /\ [][NextDeleteColumns]_vars

(* Properties of Deletes_Mentioned_Columns.py *)

\* The value a cell text stands for: missing, a number, or the text itself
Canonical(cell) ==
    IF cell \in NaValues THEN NaN
    ELSE IF cell \in IntTexts \cup FloatTexts THEN FloatRepr(cell)
    ELSE cell
NoneToRemove == Range(header) \cap Range(columns_to_remove) = {}

\* C16: when no column of the file is named in columns_to_remove, the finished
\* output has the input's header and the input's rows, as many and in the same
\* order, every cell standing for the value of the input cell (a number may be
\* written as a float, a marker of missing data as an empty cell), whatever
\* the chunk size; while the rewrite runs the output is that of the rows read.
C16_EmptyDecisionRoundTrip ==
    (NoneToRemove /\ ~is_first_chunk) =>
       /\ output_csv[1] = HeaderLine(header)
       /\ Len(output_csv) = 1 + rows_read
       /\ pc = "created" => rows_read = Len(file)
       /\ \A r \in 1..rows_read :
             /\ output_csv[r + 1].kind = "row"
             /\ Len(output_csv[r + 1].cells) = Len(header)
             /\ \A c \in DOMAIN header :
                   Canonical(output_csv[r + 1].cells[c]) = Canonical(file[r][c])

\* The same file as text: every cell written as it was read
C16_SameText ==
    (NoneToRemove /\ pc = "created") =>
       \A r \in DOMAIN file : output_csv[r + 1].cells = file[r]

\* A file of three chunks with none of the named columns, rewritten over an
\* older output, an integer of it written as a float
C16_Witness ==
    /\ pc = "created"
    /\ NoneToRemove
    /\ Len(file) = 3 /\ CHUNK_SIZE = 1
    /\ Len(output_csv) = 4
    /\ file[1][1] = "1" /\ file[1][2] = "x"
    /\ file[2][1] = NaN /\ output_csv[3].cells[1] = NaN
    /\ file[3][2] = "2" /\ output_csv[4].cells[2] = "2"
    /\ file[3][1] = "NaN" /\ output_csv[4].cells[1] = NaN

\* The text of a cell changed by the round trip: an integer read in a chunk
\* whose column has an empty cell
C16_IntegerWrittenAsFloat ==
    /\ pc = "created"
    /\ NoneToRemove
    /\ CHUNK_SIZE = 2 /\ Len(file) = 2
    /\ file[1][1] = "1" /\ file[2][1] = NaN
    /\ output_csv[2].cells[1] = "1.0"

-----------------------------------------------------------------------------
(* main of Check_Dominance_Impossible_values.py *)

\* Entries a folder listing may hold
FileNames == {"a.csv", "b.csv", "a_validated.csv", "b_cleaned.csv", "notes.txt"}

\* filename.endswith(".csv") and
\* not filename.endswith(("_validated.csv", "_cleaned.csv")) (line 296)
EndsWithCsv(filename) == filename \in {"a.csv", "b.csv", "a_validated.csv", "b_cleaned.csv"}
EndsWithOutputSuffix(filename) == filename \in {"a_validated.csv", "b_cleaned.csv"}
Eligible(filename) == EndsWithCsv(filename) /\ ~EndsWithOutputSuffix(filename)

\* os.listdir: the entries of the folder, each once, in any order
Listings ==
    {l \in SeqsUpTo(FileNames, MaxListing) :
        \A i, j \in DOMAIN l : i # j => l[i] # l[j]}

\* The steps of the function main calls for each choice (lines 299-304):
\* generate_dominance_report reads and counts, then buckets and writes the
\* report; run_data_validation loads, validates, then cleans and saves;
\* run_inf_column_removal runs pass 1, reports and asks, then runs pass 2
TaskPhases(task) ==
    CASE task = "1" -> <<"analyse", "report">>
      [] task = "2" -> <<"load", "validate", "clean">>
      [] task = "3" -> <<"pass1", "confirm", "pass2">>

\* The steps inside a try block whose except prints and lets the function
\* return (lines 48-111, 200-211, 226-236, 256-266); the report and the
\* question of run_inf_column_removal (lines 239-255) read no file
InTry(task, phase) == ~(task = "3" /\ phase = "confirm")

\* The ways a step can end the function without an exception: the last step,
\* "no action needed" and "cancelled" (lines 239-241, 267-268)
Returns(task, phase) ==
    IF task = "3" /\ phase = "confirm" THEN {"no_action", "cancelled"}
    ELSE IF phase = TaskPhases(task)[Len(TaskPhases(task))] THEN {"done"}
    ELSE {}

\* A caught exception taken as the end of the run
ExceptEndsRun == "crashed"

\* Where control is after an except clause has printed its message: the
\* function returns to the loop of main
ExceptReturnsTo == "loop"

InitMain ==
    /\ listing \in Listings
    /\ main_choice = ""
    /\ file_pos = 0
    /\ task_phase = 0
    /\ outcomes = <<>>
    /\ pc = "menu"
    /\ header = <<>> /\ file = <<>> /\ CHUNK_SIZE = 1
    /\ rows_read = 0
    /\ OutIdle /\ DomIdle /\ EncIdle /\ ValIdle /\ InfIdle /\ ImpIdle /\ IntIdle /\ ExtIdle

notMain ==
    <<inVars, rows_read, outVars, domVars, encVars, valVars, infVars, impVars, intVars,
      extVars>>

\* The menu and the folder test (lines 283-293)
MainMenu ==
    /\ pc = "menu"
    /\ \E typed \in {"1", "2", "3", "9"}, isdir \in BOOLEAN :
          /\ main_choice' = typed
          /\ pc' = IF typed \notin {"1", "2", "3"} THEN "invalid_choice"
                   ELSE IF ~isdir THEN "folder_not_found"
                   ELSE "loop"
    /\ UNCHANGED <<listing, file_pos, task_phase, outcomes, notMain>>

\* The next entry of the listing: skipped, or handed to the chosen function
\* (lines 294-304)
MainNextEntry ==
    /\ pc = "loop"
    /\ file_pos < Len(listing)
    /\ IF Eligible(listing[file_pos + 1])
       THEN pc' = "task" /\ task_phase' = 1 /\ UNCHANGED file_pos
       ELSE file_pos' = file_pos + 1 /\ UNCHANGED <<pc, task_phase>>
    /\ UNCHANGED <<listing, main_choice, outcomes, notMain>>

\* A step of the function finishes and the next one starts
TaskAdvance ==
    /\ pc = "task"
    /\ task_phase < Len(TaskPhases(main_choice))
    /\ task_phase' = task_phase + 1
    /\ UNCHANGED <<pc, listing, main_choice, file_pos, outcomes, notMain>>

\* The function returns normally; main prints the separator (line 306)
TaskReturns ==
    /\ pc = "task"
    /\ \E result \in Returns(main_choice, TaskPhases(main_choice)[task_phase]) :
          outcomes' = Append(outcomes,
                             [ file |-> listing[file_pos + 1], task |-> main_choice,
                               result |-> result,
                               phase |-> TaskPhases(main_choice)[task_phase] ])
    /\ pc' = "loop"
    /\ file_pos' = file_pos + 1
    /\ task_phase' = 0
    /\ UNCHANGED <<listing, main_choice, notMain>>

\* A step raises inside its try block: the except prints the error and the
\* function returns; main prints the separator (line 306)
TaskRaises ==
    /\ pc = "task"
    /\ InTry(main_choice, TaskPhases(main_choice)[task_phase])
    /\ outcomes' = Append(outcomes,
                          [ file |-> listing[file_pos + 1], task |-> main_choice,
                            result |-> "error",
                            phase |-> TaskPhases(main_choice)[task_phase] ])
    /\ pc' = ExceptReturnsTo
    /\ file_pos' = file_pos + 1
    /\ task_phase' = 0
    /\ UNCHANGED <<listing, main_choice, notMain>>

\* "All files processed." (line 308)
MainAllProcessed ==
    /\ pc = "loop"
    /\ file_pos = Len(listing)
    /\ pc' = "all_processed"
    /\ UNCHANGED <<listing, main_choice, file_pos, task_phase, outcomes, notMain>>

NextMain ==
    \/ MainMenu \/ MainNextEntry \/ TaskAdvance \/ TaskReturns \/ TaskRaises
    \/ MainAllProcessed

SpecMain == InitMain /\ [][NextMain]_vars

\* The script runs on: a step that can be taken is taken
SpecMainFair == SpecMain /\ WF_vars(NextMain)

(* Properties of main *)

EligibleEntries == SelectSeq(listing, Eligible)

\* C19: whatever step of a file's task fails, the task call ends and control is
\* back in the loop of main at the next entry; a run that entered the loop
\* reaches "All files processed", and by then the chosen task has been called
\* once for every eligible .csv entry of the listing, in listing order.
C19_FailureEndsOnlyThatFile ==
    /\ [][(pc = "task" /\ pc' # "task") =>
             /\ pc' = "loop"
             /\ file_pos' = file_pos + 1
             /\ Len(outcomes') = Len(outcomes) + 1]_vars
    /\ [](pc = "all_processed" =>
             /\ Len(outcomes) = Len(EligibleEntries)
             /\ \A i \in DOMAIN outcomes :
                   /\ outcomes[i].file = EligibleEntries[i]
                   /\ outcomes[i].task = main_choice)
    /\ (pc \in {"loop", "task"}) ~> (pc = "all_processed")

\* The first of two eligible files failed while being read, the second was
\* processed to its end, an entry that is not eligible was passed over
C19_Witness ==
    /\ pc = "all_processed"
    /\ Len(listing) = 3
    /\ Len(outcomes) = 2
    /\ outcomes[1].result = "error" /\ outcomes[1].phase = "pass1"
    /\ outcomes[2].result = "done" /\ outcomes[2].phase = "pass2"

-----------------------------------------------------------------------------
(* run_interactive_dominance_analysis of Constant_LowVarience_Dominance_INF_Impossible.py *)

\* The percentages typed at the two prompts
Percents == {0, 50, 100}

\* (min_perc / 100) <= ratio <= (max_perc / 100) with ratio = count / total:
\* the three quotients are correctly rounded doubles of small integers, equal
\* exactly when the fractions are, so the comparison is the exact one
InPercentRange(low, high, count, total) ==
    low * total <= 100 * count /\ 100 * count <= high * total

\* columns_in_range after the loop over col_counters.items() (lines 402-409);
\* the ratio is kept as its numerator and denominator
ColumnsInRange(counters, totals, low, high) ==
    LET cols == {col \in DOMAIN counters :
                    /\ totals[col] # 0
                    /\ InPercentRange(low, high, MostCommonCount(counters[col]),
                                      totals[col])}
    IN  [col \in cols |->
            [ value |-> MostCommon(counters[col]),
              count |-> MostCommonCount(counters[col]),
              total |-> totals[col] ]]

IntHeader == <<"proto", "flag">>
IntCells == [proto |-> {"TCP", "UDP", NaN}, flag |-> {"S", "F"}]
IntRows == {<<a, b>> : a \in IntCells.proto, b \in IntCells.flag}
\* Longer files in which two values end with the same count, the one seen
\* second reaching that count first
IntTieFiles ==
    { << <<"UDP", "S">>, <<"TCP", "S">>, <<"TCP", "S">>, <<"UDP", "S">> >>,
      << <<"UDP", "S">>, <<"TCP", "S">>, <<"TCP", "S">>, <<"UDP", "S">>,
         <<"ICMP", "F">> >> }
IntFiles == SeqsUpTo(IntRows, MaxIntRows) \cup IntTieFiles

InitInteractive ==
    /\ header = IntHeader
    /\ file \in IntFiles
    /\ CHUNK_SIZE \in 1..MaxChunk
    /\ pc = "analyse"
    /\ rows_read = 0
    /\ is_first_chunk = TRUE
    /\ output_csv \in Destinations
    /\ col_counters = <<>>
    /\ total_counts = <<>>
    /\ label_counter = <<>> /\ col_value_label_counter = <<>> /\ bucketed = <<>>
    /\ min_perc = 0 /\ max_perc = 0 /\ columns_in_range = <<>>
    /\ EncIdle /\ ValIdle /\ InfIdle /\ ImpIdle /\ MainIdle /\ ExtIdle

notInt == <<encVars, valVars, infVars, impVars, mainVars, extVars>>
domRest == <<label_counter, col_value_label_counter, bucketed>>

\* Step 1, one chunk (lines 382-386)
IntAnalyseChunk ==
    /\ pc = "analyse"
    /\ rows_read < Len(file)
    /\ LET chunk == NextChunk(file, rows_read, CHUNK_SIZE)
       IN  /\ col_counters' =
                 [col \in Range(header) |->
                     CounterUpdate(GetOr(col_counters, col, <<>>),
                                   DropNa(Column(header, chunk, col)))]
           /\ total_counts' =
                 [col \in Range(header) |->
                     TotalAfter(GetOr(total_counts, col, 0),
                                DropNa(Column(header, chunk, col)))]
           /\ rows_read' = rows_read + Len(chunk)
    /\ UNCHANGED <<inVars, pc, outVars, domRest, intVars, notInt>>

\* Steps 2 and 3: the two percentages and the columns in that range
\* (lines 390-419); a range that is not valid asks again
IntSelectRange ==
    /\ \/ pc = "analyse" /\ rows_read = Len(file)
       \/ pc = "select"
    /\ \E low \in Percents, high \in Percents :
          /\ low <= high
          /\ min_perc' = low
          /\ max_perc' = high
          /\ columns_in_range' = ColumnsInRange(col_counters, total_counts, low, high)
          /\ pc' = IF columns_in_range' = <<>> THEN "no_columns" ELSE "menu"
    /\ UNCHANGED <<inVars, rows_read, outVars, domVars, notInt>>

\* No column in the range: another range, or the next file (lines 411-415)
IntTryAgain ==
    /\ pc = "no_columns"
    /\ \E again \in BOOLEAN : pc' = IF again THEN "select" ELSE "next_file"
    /\ UNCHANGED <<inVars, rows_read, outVars, domVars, intVars, notInt>>

\* Step 5: the action menu (lines 431-463)
IntAction ==
    /\ pc = "menu"
    /\ \E action \in {"d", "r", "n"}, sure \in BOOLEAN :
          IF action = "d" /\ sure
          THEN pc' = "delete" /\ is_first_chunk' = TRUE /\ rows_read' = 0
          ELSE /\ pc' = IF action = "r" THEN "select" ELSE "next_file"
               /\ UNCHANGED <<is_first_chunk, rows_read>>
    /\ UNCHANGED <<inVars, output_csv, domVars, intVars, notInt>>

\* The rewrite without the columns in range, one chunk (lines 446-452)
IntDeleteChunk ==
    /\ pc = "delete"
    /\ rows_read < Len(file)
    /\ LET chunk == DropColumns(header, NextChunk(file, rows_read, CHUNK_SIZE),
                                DOMAIN columns_in_range)
       IN  /\ output_csv' =
                 RewriteOutput(is_first_chunk, output_csv, chunk.columns, chunk.rows)
           /\ is_first_chunk' = FALSE
           /\ rows_read' = rows_read + Len(chunk.rows)
    /\ UNCHANGED <<inVars, pc, domVars, intVars, notInt>>

\* "Deletion successful." (lines 453-456)
IntDeleted ==
    /\ pc = "delete"
    /\ rows_read = Len(file)
    /\ pc' = "next_file"
    /\ UNCHANGED <<inVars, rows_read, outVars, domVars, intVars, notInt>>

NextInteractive ==
    \/ IntAnalyseChunk \/ IntSelectRange \/ IntTryAgain \/ IntAction
    \/ IntDeleteChunk \/ IntDeleted

SpecInteractive == InitInteractive /\ [][NextInteractive]_vars

(* Properties of run_interactive_dominance_analysis *)

\* The first row of the file that holds a value in a column
FirstRow(col, v) ==
    CHOOSE r \in DOMAIN file :
       /\ file[r][ColIndex(header, col)] = v
       /\ \A q \in 1..(r - 1) : file[q][ColIndex(header, col)] # v
TiedValues(col) ==
    {v \in {file[r][ColIndex(header, col)] : r \in DOMAIN file} \ {NaN} :
        Occurrences(col, v) = MaxOccurrences(col)}

\* C20: the value reported for a column is one of the values with the largest
\* count, and of these the one whose first row in the file comes first,
\* whatever the chunk size; the ratio reported is that largest count over the
\* non-null cells, the same for every tied value.
C20_FirstEncounteredWinsTie ==
    \A col \in DOMAIN columns_in_range :
       LET rep == columns_in_range[col]
       IN  /\ rep.value \in TiedValues(col)
           /\ \A w \in TiedValues(col) : FirstRow(col, rep.value) <= FirstRow(col, w)
           /\ rep.total = NonNullCells(col)
           /\ \A w \in TiedValues(col) : rep.count = Occurrences(col, w)

\* Two values tied at 2 of 4, the one seen second reaching 2 first, counted
\* over two chunks: the one seen first is reported
C20_Witness ==
    /\ pc = "menu"
    /\ Len(file) = 4
    /\ CHUNK_SIZE = 3
    /\ TiedValues("proto") = {"UDP", "TCP"}
    /\ "proto" \in DOMAIN columns_in_range
    /\ columns_in_range["proto"].value = "UDP"
    /\ columns_in_range["proto"].count = 2
    /\ columns_in_range["proto"].total = 4

-----------------------------------------------------------------------------
(* run_data_validation of Check_Handle_Dominance_Impossible_INF_values.py *)

\* results after the two loops of lines 133-148: the never-negative check and
\* the port check; 'percentage_issues' is created empty (line 127) and no loop
\* fills it
HandleResults(d0) ==
    LET d == WithLabel(Renamed(d0))
        cols == Range(d.columns)
    IN  [ negative_issues |->
            Issues(d, {c \in cols : is_column_never_negative(c)}, "negative_issues"),
          port_issues |->
            Issues(d, Range(PORT_COLUMNS) \cap cols, "port_issues"),
          percentage_issues |-> <<>> ]

\* The rename and the placeholder, bound to df itself (lines 128-132), and the
\* two checks (lines 133-148)
HvValidate ==
    /\ pc = "load"
    /\ rows_read = Len(file)
    /\ results' = HandleResults(df)
    /\ df' = WithLabel(Renamed(df))
    /\ pc' = "clean"
    /\ UNCHANGED <<inVars, rows_read, outVars, choice, notVal>>

\* The load (line 125), the checks, and the removal and save of lines 149-161,
\* which are those of clean_data_if_needed
NextValidationHandle == ValReadChunk \/ HvValidate \/ ValClean

SpecValidationHandle == InitValidation /\ [][NextValidationHandle]_vars

(* Properties of that run_data_validation *)

\* C21: a row whose cell in a column with 'percentage' in its name is a number
\* outside [0, 100] is in the removal set, and is not in the file saved on
\* confirmation.
C21_PercentageOutOfRangeRemoved ==
    Validated =>
       \A i \in DOMAIN file : \A c \in DOMAIN header :
          ( /\ "percentage" \in KeywordsIn[header[c]]
            /\ Parses(file[i][c])
            /\ ~InRange(file[i][c], 0, 100) ) =>
               /\ (i - 1) \in invalid_indices(results)
               /\ (Saved /\ invalid_indices(results) # {}) =>
                     \A j \in DOMAIN SavedRows :
                        SubSeq(SavedRows[j], 1, Len(header)) # file[i]

\* What the code does do with such a column: a negative number is removed,
\* under the never-negative check
C21_NegativePercentageRemoved ==
    Validated =>
       \A i \in DOMAIN file : \A c \in DOMAIN header :
          ( /\ "percentage" \in KeywordsIn[header[c]]
            /\ is_column_never_negative(header[c])
            /\ IsNegative(file[i][c]) ) =>
               (i - 1) \in invalid_indices(results)

\* A row with 150 in idle_percentage saved in the validated file
C21_OutOfRangeRowSaved ==
    /\ Saved
    /\ header = ValPortHeader
    /\ Len(file) = 2
    /\ CellOf(1, "idle_percentage") = "150" /\ CellOf(1, "src_port") = "80"
    /\ results.percentage_issues = <<>>
    /\ Len(SavedRows) = 1
    /\ SubSeq(SavedRows[1], 1, 2) = <<"80", "150">>

-----------------------------------------------------------------------------
(* split_and_write of Label_Detection.py and of                           *)
(* Label_Detection_and_Splitting_for_Training_Testing.py                  *)

LABEL_COLUMN == "Label"
\* train_ratio=0.6, in percent
train_ratio == 60

\* The quota truncated instead of rounded
TrainQuotaFloor(cnt) ==
    LET t == (cnt * train_ratio) \div 100
    IN  IF t > cnt THEN cnt ELSE IF t < 0 THEN 0 ELSE t

\* int(round(cnt * train_ratio)) clamped to 0..cnt (lines 56-58).  cnt * 0.6 is
\* never half way between two integers, so round() is the nearest integer.
TrainQuota(cnt) ==
    LET t == (cnt * train_ratio + 50) \div 100
    IN  IF t > cnt THEN cnt ELSE IF t < 0 THEN 0 ELSE t

\* plan_stratified_split
plan_stratified_split(counts) ==
    [ train_needed |-> [l \in CounterKeys(counts) |-> TrainQuota(CounterGet(counts, l))],
      test_needed  |-> [l \in CounterKeys(counts) |->
                           CounterGet(counts, l) - TrainQuota(CounterGet(counts, l))] ]

SplitHeader == <<"flow_id", LABEL_COLUMN>>
SplitLabels == {"Benign", "DoS", NaN}
\* Files whose rows carry their position in flow_id
SplitFiles ==
    {[i \in DOMAIN labels |-> <<ToString(i), labels[i]>>] :
        labels \in SeqsUpTo(SplitLabels, MaxSplitRows)}

InitSplit ==
    /\ header = SplitHeader
    /\ file \in SplitFiles
    /\ CHUNK_SIZE \in 1..MaxChunk
    /\ pc = "pass1"
    /\ rows_read = 0
    /\ total_rows = 0
    /\ label_counts = <<>> /\ train_needed = <<>> /\ test_needed = <<>>
    /\ written_train = <<>> /\ written_test = <<>>
    /\ train_csv \in Destinations /\ test_csv \in Destinations
    /\ inf_counts = <<>> /\ columns_to_delete = {} /\ user_input = ""
    /\ OutIdle /\ DomIdle /\ EncIdle /\ ValIdle /\ ImpIdle /\ IntIdle /\ MainIdle
    /\ SepIdle /\ first_chunk = TRUE /\ seen_rows = {}

notSplit == <<outVars, domVars, encVars, valVars, inf_counts, columns_to_delete,
              user_input, impVars, intVars, mainVars, sepVars, first_chunk, seen_rows>>
quotaVars == <<train_needed, test_needed, written_train, written_test>>

\* count_labels_first, one chunk (lines 37-45)
SplitCountChunk ==
    /\ pc = "pass1"
    /\ rows_read < Len(file)
    /\ LET chunk == NextChunk(file, rows_read, CHUNK_SIZE)
       IN  /\ label_counts' =
                 CounterUpdate(label_counts, DropNa(Column(header, chunk, LABEL_COLUMN)))
           /\ total_rows' = total_rows + Len(chunk)
           /\ rows_read' = rows_read + Len(chunk)
    /\ UNCHANGED <<inVars, pc, quotaVars, train_csv, test_csv, notSplit>>

\* One row of `for idx, row in chunk.iterrows()` (lines 161-184).  The
\* defaultdicts get a key when they are read; a missing label is the one
\* object np.nan, a key like any other.
AssignRow(st, row) ==
    LET label == row[ColIndex(SplitHeader, LABEL_COLUMN)]
        tn == IF label \in DOMAIN st.train_needed THEN st.train_needed
              ELSE Put(st.train_needed, label, 0)
        te == IF label \in DOMAIN st.train_needed THEN st.test_needed
              ELSE Put(st.test_needed, label, 0)
        wt == GetOr(st.written_train, label, 0)
        we == GetOr(st.written_test, label, 0)
        to_train == [st EXCEPT !.train_needed = tn, !.test_needed = te,
                               !.written_train = Put(st.written_train, label, wt + 1),
                               !.train_rows = Append(st.train_rows, row)]
        to_test == [st EXCEPT !.train_needed = tn, !.test_needed = te,
                              !.written_train = Put(st.written_train, label, wt),
                              !.written_test = Put(st.written_test, label, we + 1),
                              !.test_rows = Append(st.test_rows, row)]
    IN  IF wt < tn[label] THEN to_train
        ELSE IF we < te[label] THEN to_test
        ELSE IF wt < we
             THEN [to_train EXCEPT !.written_test = Put(st.written_test, label, we)]
             ELSE to_test

RECURSIVE AssignRows(_, _)
AssignRows(st, rows) ==
    IF rows = <<>> THEN st ELSE AssignRows(AssignRow(st, Head(rows)), Tail(rows))

\* `header = not os.path.exists(path)` and to_csv(path, mode="a", header=header)
\* (lines 187-194); a file that does not exist holds no line
AppendCsv(dest, cols, rows) ==
    IF rows = <<>> THEN dest
    ELSE IF dest = <<>> THEN ToCsvWrite(cols, rows)
    ELSE ToCsvAppend(dest, rows)

\* Quotas from pass 1 (lines 118-123)
SplitPlan ==
    /\ pc = "pass1"
    /\ rows_read = Len(file)
    /\ IF total_rows = 0
       THEN /\ pc' = "skipped"
            /\ UNCHANGED <<train_needed, test_needed, rows_read>>
       ELSE /\ train_needed' = plan_stratified_split(label_counts).train_needed
            /\ test_needed' = plan_stratified_split(label_counts).test_needed
            /\ rows_read' = 0
            /\ pc' = "pass2"
    /\ UNCHANGED <<inVars, label_counts, total_rows, written_train, written_test,
                   train_csv, test_csv, notSplit>>

\* The chunk of pass 2 assigned and appended, the destinations being `train`
\* and `test` when its rows are written
AssignChunk(train, test) ==
    LET chunk == NextChunk(file, rows_read, CHUNK_SIZE)
        st == AssignRows([train_needed |-> train_needed, test_needed |-> test_needed,
                          written_train |-> written_train,
                          written_test |-> written_test,
                          train_rows |-> <<>>, test_rows |-> <<>>], chunk)
    IN  /\ train_needed' = st.train_needed
        /\ test_needed' = st.test_needed
        /\ written_train' = st.written_train
        /\ written_test' = st.written_test
        /\ train_csv' = AppendCsv(train, header, st.train_rows)
        /\ test_csv' = AppendCsv(test, header, st.test_rows)
        /\ rows_read' = rows_read + Len(chunk)

\* Pass 2 of Label_Detection.py, one chunk (lines 139-194).  train_writer is
\* never assigned, so `if train_writer is None` (line 149) holds for every
\* chunk and both destinations are removed before the chunk is written.
SplitAssignChunk ==
    /\ pc = "pass2"
    /\ rows_read < Len(file)
    /\ AssignChunk(<<>>, <<>>)
    /\ UNCHANGED <<inVars, pc, label_counts, total_rows, notSplit>>

\* Final counts and report (lines 196-214)
SplitDone ==
    /\ pc = "pass2"
    /\ rows_read = Len(file)
    /\ pc' = "done"
    /\ UNCHANGED <<inVars, rows_read, label_counts, total_rows, quotaVars,
                   train_csv, test_csv, notSplit>>

NextSplit == SplitCountChunk \/ SplitPlan \/ SplitAssignChunk \/ SplitDone

SpecSplit == InitSplit /\ [][NextSplit]_vars

\* Label_Detection_and_Splitting_for_Training_Testing.py removes the old
\* outputs once, before the loop of pass 2 (lines 93-106)
SplitPlanAndRemove ==
    /\ pc = "pass1"
    /\ rows_read = Len(file)
    /\ IF total_rows = 0
       THEN /\ pc' = "skipped"
            /\ UNCHANGED <<train_needed, test_needed, rows_read, train_csv, test_csv>>
       ELSE /\ train_needed' = plan_stratified_split(label_counts).train_needed
            /\ test_needed' = plan_stratified_split(label_counts).test_needed
            /\ train_csv' = <<>>
            /\ test_csv' = <<>>
            /\ rows_read' = 0
            /\ pc' = "pass2"
    /\ UNCHANGED <<inVars, label_counts, total_rows, written_train, written_test,
                   notSplit>>

\* Its pass 2, one chunk (lines 111-151)
SplitAppendChunk ==
    /\ pc = "pass2"
    /\ rows_read < Len(file)
    /\ AssignChunk(train_csv, test_csv)
    /\ UNCHANGED <<inVars, pc, label_counts, total_rows, notSplit>>

NextSplitTesting == SplitCountChunk \/ SplitPlanAndRemove \/ SplitAppendChunk \/ SplitDone

SpecSplitTesting == InitSplit /\ [][NextSplitTesting]_vars

(* Properties of split_and_write *)

\* The rows of the lines of a file below its header
RowsOf(lines) == [i \in 1..(Len(lines) - 1) |-> lines[i + 1].cells]
HeaderCount(lines) == Cardinality({i \in DOMAIN lines : lines[i].kind = "header"})
RECURSIVE SumOver(_, _)
SumOver(f, keys) ==
    IF keys = {} THEN 0
    ELSE LET k == CHOOSE x \in keys : TRUE IN f[k] + SumOver(f, keys \ {k})
\* The rows of the input with label l, in file order
RowsLabelled(l) == SelectSeq(file, LAMBDA row : row[2] = l)

\* C23: when split_and_write of Label_Detection has finished, the training
\* file holds one header and exactly the rows counted in written_train, the
\* test file one header and the rows counted in written_test: the rows of
\* earlier chunks are still there and nothing of an older run is.
C23_OutputsHoldAllWrittenRows ==
    pc = "done" =>
       /\ Len(train_csv) > 0 =>
             /\ HeaderCount(train_csv) = 1 /\ train_csv[1] = HeaderLine(header)
       /\ Len(test_csv) > 0 =>
             /\ HeaderCount(test_csv) = 1 /\ test_csv[1] = HeaderLine(header)
       /\ Len(RowsOf(train_csv)) = SumOver(written_train, DOMAIN written_train)
       /\ Len(RowsOf(test_csv)) = SumOver(written_test, DOMAIN written_test)

\* Two chunks with training rows: the training file holds the last one only
C23_EarlierChunkRemoved ==
    /\ pc = "done"
    /\ CHUNK_SIZE = 1
    /\ Column(header, file, LABEL_COLUMN) = <<"DoS", "Benign">>
    /\ written_train = [DoS |-> 1, Benign |-> 1]
    /\ RowsOf(train_csv) = <<file[2]>>

NoNullLabel == NaN \notin Range(Column(header, file, LABEL_COLUMN))
RowsWithLabel(rows, l) == SelectSeq(rows, LAMBDA row : row[2] = l)

\* C24: when every label of the file is non-null, no count of written rows
\* ever exceeds its quota (the over-quota branch is not taken), and at the end
\* every row is in exactly one of the two outputs: for each label L the
\* training file holds the first train_needed[L] rows of L in file order, the
\* test file the others, written_train[L] is 0.6 * count[L] rounded to the
\* nearest integer and written_test[L] is count[L] - written_train[L], for
\* any chunk size.
C24_QuotasMet ==
    (NoNullLabel /\ pc \in {"pass2", "done"}) =>
       /\ \A l \in DOMAIN written_train : written_train[l] <= train_needed[l]
       /\ \A l \in DOMAIN written_test : written_test[l] <= test_needed[l]
       /\ pc = "done" =>
             /\ Len(RowsOf(train_csv)) + Len(RowsOf(test_csv)) = Len(file)
             /\ \A l \in Range(Column(header, file, LABEL_COLUMN)) :
                   LET cnt == Len(RowsLabelled(l))
                       wt == GetOr(written_train, l, 0)
                       we == GetOr(written_test, l, 0)
                   IN  /\ 10 * wt - 6 * cnt < 5 /\ 6 * cnt - 10 * wt < 5
                       /\ we = cnt - wt
                       /\ RowsWithLabel(RowsOf(train_csv), l)
                             = SubSeq(RowsLabelled(l), 1, wt)
                       /\ RowsWithLabel(RowsOf(test_csv), l)
                             = SubSeq(RowsLabelled(l), wt + 1, cnt)

\* Three DoS rows over two chunks: two in training, the last in test
C24_Witness ==
    /\ pc = "done"
    /\ CHUNK_SIZE = 2
    /\ Column(header, file, LABEL_COLUMN) = <<"DoS", "Benign", "DoS", "DoS">>
    /\ written_train["DoS"] = 2 /\ written_test["DoS"] = 1
    /\ written_train["Benign"] = 1
    /\ RowsOf(train_csv) = <<file[1], file[2], file[3]>>
    /\ RowsOf(test_csv) = <<file[4]>>

-----------------------------------------------------------------------------
(* process_and_save_file of Find_Missing_and_Separate_Bening_Attack.py *)

DEFAULT_ROWS_PER_FILE == 1000000
BENIGN_LABEL_VALUE == "BENIGN"

SepHeader == <<"flow_id", "rate", "Label">>
actual_label_col == "Label"
\* The attack labels of the model, in the order groupby yields them (sorted)
AttackLabels == <<"DoS Hulk">>
SepCells == {<<"1", BENIGN_LABEL_VALUE>>, <<NaN, BENIGN_LABEL_VALUE>>,
             <<"1", "DoS Hulk">>, <<NaN, "DoS Hulk">>, <<"1", NaN>>}
\* Files whose rows carry their position in flow_id
SepFiles ==
    {[i \in DOMAIN cells |-> <<ToString(i)>> \o cells[i]] :
        cells \in SeqsUpTo(SepCells, MaxSepRows)}

LabelOf(row) == row[ColIndex(SepHeader, actual_label_col)]
\* isnull().any(axis=1)
HasNull(row) == \E c \in DOMAIN row : row[c] = NaN

\* "".join(c for c in category if c.isalnum() or c in ('-', '_')) on the
\* categories of the model
safe_name(category) == IF category = "DoS Hulk" THEN "DoSHulk" ELSE category

\* get_user_instructions: a limit is asked for a class only when the file has
\* a label of that class; Enter gives the default, a typed limit is positive
\* (lines 69-103)
TotalLabels(rows) == {LabelOf(rows[i]) : i \in DOMAIN rows} \ {NaN}
MissingLabels(rows) == {LabelOf(rows[i]) : i \in {j \in DOMAIN rows : HasNull(rows[j])}} \ {NaN}
Limits == (1..MaxLimit) \cup {DEFAULT_ROWS_PER_FILE}
BenignLimits(rows) ==
    IF BENIGN_LABEL_VALUE \in TotalLabels(rows) THEN Limits ELSE {0}
AttackLimits(rows) ==
    IF \E l \in TotalLabels(rows) : l # BENIGN_LABEL_VALUE THEN Limits ELSE {0}
\* 'none', 'all', or the labels typed (lines 105-121)
LabelsToDelete(rows) ==
    IF MissingLabels(rows) = {} THEN {{}} ELSE SUBSET TotalLabels(rows)
\* (separate_by_missing_status, separation_scope) (lines 123-143)
Separations == {<<FALSE, "none">>, <<TRUE, "benign">>, <<TRUE, "attacks">>, <<TRUE, "both">>}

InitSeparate ==
    /\ header = SepHeader
    /\ file \in SepFiles
    /\ CHUNK_SIZE \in 1..MaxChunk
    /\ pc = "process"
    /\ rows_read = 0
    /\ labels_to_delete \in LabelsToDelete(file)
    /\ benign_rows_per_file \in BenignLimits(file)
    /\ attack_rows_per_file \in AttackLimits(file)
    /\ \E sep \in Separations : separate_by_missing = sep[1] /\ scope = sep[2]
    /\ buffers = <<>> /\ part_counts = <<>> /\ parts = <<>>
    /\ OutIdle /\ DomIdle /\ EncIdle /\ ValIdle /\ InfIdle /\ ImpIdle /\ IntIdle /\ MainIdle
    /\ SplitIdle /\ first_chunk = TRUE /\ seen_rows = {}

notSep == <<outVars, domVars, encVars, valVars, infVars, impVars, intVars, mainVars,
            splitVars, first_chunk, seen_rows>>
optVars == <<labels_to_delete, benign_rows_per_file, attack_rows_per_file,
             separate_by_missing, scope>>

\* The folders os.makedirs creates (lines 160-166), as (status, category)
CreatedFolders(separate) ==
    IF separate
    THEN {<<status, category>> : status \in {"NoMissing", "Missing"},
                                 category \in {"Benign", "Attacks"}}
    ELSE {<<"", "Benign">>, <<"", "Attacks">>}

\* chunk[~rows_to_drop_mask] (lines 175-179)
Cleaned(chunk, to_delete) ==
    SelectSeq(chunk, LAMBDA row : ~(LabelOf(row) \in to_delete /\ HasNull(row)))

\* buffers[category][status].append(rows): the key is created when missing
BufferAppend(bufs, category, status, rows) ==
    IF \E i \in DOMAIN bufs : bufs[i].category = category /\ bufs[i].status = status
    THEN [i \in DOMAIN bufs |->
            IF bufs[i].category = category /\ bufs[i].status = status
            THEN [bufs[i] EXCEPT !.rows = @ \o rows]
            ELSE bufs[i]]
    ELSE Append(bufs, [category |-> category, status |-> status, rows |-> rows])

\* The rows of one class added to its buffers (lines 185-201)
Buffered(bufs, category, rows, separated) ==
    IF rows = <<>> THEN bufs
    ELSE IF separated
    THEN BufferAppend(
            BufferAppend(bufs, category, "NoMissing",
                         SelectSeq(rows, LAMBDA row : ~HasNull(row))),
            category, "Missing", SelectSeq(rows, LAMBDA row : HasNull(row)))
    ELSE BufferAppend(bufs, category, "default", rows)

\* for label, group in attack_data.groupby(actual_label_col): the groups of
\* the non-null labels, in sorted order
RECURSIVE BufferedGroups(_, _, _, _)
BufferedGroups(bufs, labels, attack_data, separated) ==
    IF labels = <<>> THEN bufs
    ELSE BufferedGroups(
            Buffered(bufs, Head(labels),
                     SelectSeq(attack_data, LAMBDA row : LabelOf(row) = Head(labels)),
                     separated),
            Tail(labels), attack_data, separated)

\* The buffers after the chunk has been split (lines 182-201); the benign
\* rows are held under the category 'Benign'
BuffersAfter(bufs, chunk_cleaned, separate, sc) ==
    LET benign_data == SelectSeq(chunk_cleaned, LAMBDA row : LabelOf(row) = BENIGN_LABEL_VALUE)
        attack_data == SelectSeq(chunk_cleaned, LAMBDA row : LabelOf(row) # BENIGN_LABEL_VALUE)
        with_benign == Buffered(bufs, "Benign", benign_data,
                                separate /\ sc \in {"benign", "both"})
    IN  BufferedGroups(with_benign, AttackLabels, attack_data,
                       separate /\ sc \in {"attacks", "both"})

\* is_benign and row_limit (lines 206-207)
is_benign(category) == category = BENIGN_LABEL_VALUE
row_limit(category, benign_limit, attack_limit) ==
    IF is_benign(category) THEN benign_limit ELSE attack_limit

\* The file name of a part (lines 211-218)
PartName(category, status, part_num, separate) ==
    [ folder |-> <<IF separate THEN status ELSE "",
                   IF is_benign(category) THEN "Benign" ELSE "Attacks">>,
      name |-> safe_name(category), part |-> part_num ]

\* df_to_save.to_csv(filename, index=False): raises when the folder does not
\* exist, else the file holds the rows
SaveOne(st, i, separate, clear) ==
    LET b == st.buffers[i]
        key == <<b.category, b.status>>
        part_num == GetOr(st.part_counts, key, 1)
        filename == PartName(b.category, b.status, part_num, separate)
    IN  IF filename.folder \notin CreatedFolders(separate)
        THEN [st EXCEPT !.failed = TRUE]
        ELSE [st EXCEPT !.parts = Put(st.parts, filename, b.rows),
                        !.buffers = IF clear THEN [st.buffers EXCEPT ![i].rows = <<>>]
                                    ELSE st.buffers,
                        !.part_counts = IF clear THEN Put(st.part_counts, key, part_num + 1)
                                        ELSE st.part_counts]

\* The saving loop after a chunk (lines 204-222), from buffer i on
RECURSIVE FlushFrom(_, _, _, _, _)
FlushFrom(st, i, benign_limit, attack_limit, separate) ==
    IF i > Len(st.buffers) \/ st.failed THEN st
    ELSE LET limit == row_limit(st.buffers[i].category, benign_limit, attack_limit)
             due == limit > 0 /\ Len(st.buffers[i].rows) >= limit
                       /\ st.buffers[i].rows # <<>>
         IN  FlushFrom(IF due THEN SaveOne(st, i, separate, TRUE) ELSE st,
                       i + 1, benign_limit, attack_limit, separate)

\* "Saving remaining data" (lines 224-240), from buffer i on
RECURSIVE SaveRemainingFrom(_, _, _)
SaveRemainingFrom(st, i, separate) ==
    IF i > Len(st.buffers) \/ st.failed THEN st
    ELSE SaveRemainingFrom(IF st.buffers[i].rows # <<>>
                           THEN SaveOne(st, i, separate, FALSE) ELSE st,
                           i + 1, separate)

\* One chunk of the loop (lines 172-222)
SepChunk ==
    /\ pc = "process"
    /\ rows_read < Len(file)
    /\ LET chunk == NextChunk(file, rows_read, CHUNK_SIZE)
           chunk_cleaned == IF labels_to_delete # {} THEN Cleaned(chunk, labels_to_delete)
                            ELSE chunk
           held == BuffersAfter(buffers, chunk_cleaned, separate_by_missing, scope)
           st == FlushFrom([buffers |-> held, part_counts |-> part_counts,
                            parts |-> parts, failed |-> FALSE], 1,
                           benign_rows_per_file, attack_rows_per_file,
                           separate_by_missing)
       IN  /\ buffers' = st.buffers
           /\ part_counts' = st.part_counts
           /\ parts' = st.parts
           /\ pc' = IF st.failed THEN "fatal" ELSE "process"
           /\ rows_read' = rows_read + Len(chunk)
    /\ UNCHANGED <<inVars, optVars, notSep>>

\* The remaining data saved and "Finished processing" (lines 224-245)
SepRemaining ==
    /\ pc = "process"
    /\ rows_read = Len(file)
    /\ LET st == SaveRemainingFrom([buffers |-> buffers, part_counts |-> part_counts,
                                    parts |-> parts, failed |-> FALSE], 1,
                                   separate_by_missing)
       IN  /\ parts' = st.parts
           /\ pc' = IF st.failed THEN "fatal" ELSE "finished"
    /\ UNCHANGED <<inVars, rows_read, optVars, buffers, part_counts, notSep>>

NextSeparate == SepChunk \/ SepRemaining

SpecSeparate == InitSeparate /\ [][NextSeparate]_vars

(* Properties of process_and_save_file *)

IsBenignRow(row) == LabelOf(row) = BENIGN_LABEL_VALUE
PartRows(f) == parts[f]
\* Occurrences of a row in the part files
RECURSIVE CountIn(_, _)
CountIn(row, rows) ==
    IF rows = <<>> THEN 0
    ELSE (IF Head(rows) = row THEN 1 ELSE 0) + CountIn(row, Tail(rows))
RECURSIVE TimesWritten(_, _)
TimesWritten(row, names) ==
    IF names = {} THEN 0
    ELSE LET f == CHOOSE x \in names : TRUE
         IN  CountIn(row, parts[f]) + TimesWritten(row, names \ {f})
\* The rows the cleaning mask keeps and groupby can place
Kept(row) == LabelOf(row) # NaN /\ ~(LabelOf(row) \in labels_to_delete /\ HasNull(row))

\* C25: the benign rows are held back until benign_rows_per_file of them are
\* buffered and are written only under a Benign folder; the rows of the other
\* labels are held back until attack_rows_per_file and written only under an
\* Attacks folder.
C25_ClassLimitAndFolder ==
    /\ \A f \in DOMAIN parts : \A i \in DOMAIN parts[f] :
          f.folder[2] = (IF IsBenignRow(parts[f][i]) THEN "Benign" ELSE "Attacks")
    /\ pc = "process" =>
          \A i \in DOMAIN buffers : \A r \in DOMAIN buffers[i].rows :
             Len(buffers[i].rows) <
                (IF IsBenignRow(buffers[i].rows[r]) THEN benign_rows_per_file
                 ELSE attack_rows_per_file)

\* A BENIGN row written under the Attacks folder
C25_BenignUnderAttacks ==
    /\ pc = "finished"
    /\ ~separate_by_missing
    /\ \E f \in DOMAIN parts :
          /\ f.folder = <<"", "Attacks">> /\ f.name = "Benign"
          /\ \A i \in DOMAIN parts[f] : IsBenignRow(parts[f][i])
          /\ parts[f] # <<>>

\* C26: no part file holds more rows than the limit entered for its class,
\* whatever the chunk size.
C26_PartWithinLimit ==
    \A f \in DOMAIN parts : \A i \in DOMAIN parts[f] :
       Len(parts[f]) <= (IF IsBenignRow(parts[f][i]) THEN benign_rows_per_file
                         ELSE attack_rows_per_file)

\* A chunk of three attack rows saved as one part under a limit of two
C26_PartOverLimit ==
    /\ attack_rows_per_file = 2
    /\ CHUNK_SIZE = 3
    /\ \E f \in DOMAIN parts :
          /\ Len(parts[f]) = 3
          /\ \A i \in DOMAIN parts[f] : LabelOf(parts[f][i]) = "DoS Hulk"

\* C27: when process_and_save_file has ended, every row of the input that has
\* a label and is not dropped by the cleaning mask is in exactly one part
\* file, for every combination of the options.
C27_EveryKeptRowWrittenOnce ==
    pc \in {"finished", "fatal"} =>
       \A r \in DOMAIN file :
          Kept(file[r]) => TimesWritten(file[r], DOMAIN parts) = 1

\* The rows are written once each when the run reaches "Finished processing"
C27_WrittenOnceWhenFinished ==
    pc = "finished" =>
       \A r \in DOMAIN file :
          Kept(file[r]) => TimesWritten(file[r], DOMAIN parts) = 1

\* Separation applied to the benign rows only: the attack row is not written
C27_FatalOnDefaultFolder ==
    /\ pc = "fatal"
    /\ separate_by_missing /\ scope = "benign"
    /\ Len(file) = 1 /\ LabelOf(file[1]) = "DoS Hulk"
    /\ parts = <<>>

-----------------------------------------------------------------------------
(* New_Column_to_handle_string.py *)

cols_to_fix == <<"delta_start", "handshake_duration">>

NcHeader == <<"flow_id", "delta_start", "handshake_duration">>
NcCells == [flow_id |-> {"7"},
            delta_start |-> {"1", "3", "not a complete handshake"},
            handshake_duration |-> {"2", "Not a Complete Handshake"}]
NcRows == {<<a, b, c>> : a \in NcCells.flow_id, b \in NcCells.delta_start,
                         c \in NcCells.handshake_duration}

\* astype(str).str.lower() == "not a complete handshake"
IsIncomplete(cell) ==
    cell \in {"not a complete handshake", "Not a Complete Handshake"}

\* new_order (lines 43-47)
new_order(cols) ==
    <<cols_to_fix[1], cols_to_fix[2], "handshake_incomplete">>
       \o SelectSeq(cols, LAMBDA c : c \notin Range(cols_to_fix))

\* The median as to_csv writes it
MedianText(median_val) ==
    IF median_val.defined THEN FloatText(median_val.twice) ELSE NaN

\* One row of the chunk with the flag, the fills and the new order (lines 33-48)
FixedRow(hdr, row, meds) ==
    LET d == row[ColIndex(hdr, cols_to_fix[1])]
        h == row[ColIndex(hdr, cols_to_fix[2])]
        rest == SelectSeq(hdr, LAMBDA c : c \notin Range(cols_to_fix))
    IN  << IF IsIncomplete(d) THEN MedianText(meds[cols_to_fix[1]]) ELSE d,
           IF IsIncomplete(h) THEN MedianText(meds[cols_to_fix[2]]) ELSE h,
           IF IsIncomplete(d) \/ IsIncomplete(h) THEN "1" ELSE "0" >>
        \o [i \in DOMAIN rest |-> row[ColIndex(hdr, rest[i])]]

\* chunk['handshake_incomplete'] == 1 on a row
Affected(row) ==
    \E c \in DOMAIN cols_to_fix : IsIncomplete(row[ColIndex(NcHeader, cols_to_fix[c])])

InitNewColumn ==
    /\ header = NcHeader
    /\ file \in SeqsUpTo(NcRows, MaxNcRows)
    /\ CHUNK_SIZE \in 1..MaxChunk
    /\ pc = "phase1"
    /\ rows_read = 0
    /\ medians = <<>>
    /\ first_chunk = TRUE
    /\ output_csv \in Destinations
    /\ is_first_chunk = TRUE
    /\ DomIdle /\ EncIdle /\ ValIdle /\ InfIdle /\ IntIdle /\ MainIdle
    /\ SplitIdle /\ SepIdle /\ seen_rows = {}

notNc == <<is_first_chunk, domVars, encVars, valVars, infVars, intVars, mainVars,
           splitVars, sepVars, seen_rows>>

\* Phase 1: the medians of the two columns (lines 19-29)
NcMedians ==
    /\ pc = "phase1"
    /\ medians' = [col \in Range(cols_to_fix) |-> Median(Column(header, file, col))]
    /\ first_chunk' = TRUE
    /\ pc' = "phase2"
    /\ UNCHANGED <<inVars, rows_read, output_csv, notNc>>

\* Phase 2, one chunk (lines 31-62): the preview of lines 51-55 clears
\* first_chunk before the test of line 58
NcChunk ==
    /\ pc = "phase2"
    /\ rows_read < Len(file)
    /\ LET chunk == NextChunk(file, rows_read, CHUNK_SIZE)
           fixed == [r \in DOMAIN chunk |-> FixedRow(header, chunk[r], medians)]
           previewed == first_chunk /\ \E r \in DOMAIN chunk : Affected(chunk[r])
           first_at_save == first_chunk /\ ~previewed
       IN  /\ output_csv' = IF first_at_save
                            THEN ToCsvWrite(new_order(header), fixed)
                            ELSE ToCsvAppend(output_csv, fixed)
           /\ first_chunk' = FALSE
           /\ rows_read' = rows_read + Len(chunk)
    /\ UNCHANGED <<inVars, pc, medians, notNc>>

\* "Processing complete" (line 64)
NcComplete ==
    /\ pc = "phase2"
    /\ rows_read = Len(file)
    /\ pc' = "complete"
    /\ UNCHANGED <<inVars, rows_read, medians, first_chunk, output_csv, notNc>>

NextNewColumn == NcMedians \/ NcChunk \/ NcComplete

SpecNewColumn == InitNewColumn /\ [][NextNewColumn]_vars

(* Properties of New_Column_to_handle_string.py *)

FirstChunkAffected ==
    \E r \in 1..Min(CHUNK_SIZE, Len(file)) : Affected(file[r])

\* C28: the finished _imputed file starts with exactly one header line, that
\* of the reordered columns, followed by the rows of the input, whether or not
\* the first chunk holds 'not a complete handshake' rows.
C28_OneHeaderFirst ==
    pc = "complete" =>
       /\ Len(output_csv) = Len(file) + 1
       /\ output_csv[1] = HeaderLine(new_order(header))
       /\ HeaderCount(output_csv) = 1

\* The header is there when the first chunk holds no such row
C28_HeaderWhenFirstChunkClean ==
    (pc = "complete" /\ ~FirstChunkAffected) =>
       /\ Len(output_csv) = Len(file) + 1
       /\ output_csv[1] = HeaderLine(new_order(header))
       /\ HeaderCount(output_csv) = 1

\* A first chunk with such a row: the file starts with a data row
C28_NoHeaderWritten ==
    /\ pc = "complete"
    /\ FirstChunkAffected
    /\ output_csv = RowLines([r \in DOMAIN file |-> FixedRow(header, file[r], medians)])
    /\ output_csv[1].kind = "row"

-----------------------------------------------------------------------------
(* Remove_Duplicate_Rows.py *)

\* pd.read_csv(dtype=str): a cell keeps its text, an empty cell and the
\* markers of missing data are NaN
ReadStr(cell) == IF cell \in NaValues THEN NaN ELSE cell
ReadStrRows(rows) == [r \in DOMAIN rows |-> [c \in DOMAIN rows[r] |-> ReadStr(rows[r][c])]]

DupHeader == <<"port", "label">>
DupCells == [port |-> {"80", "080", NaN, "NaN"}, label |-> {"Benign"}]
DupRows == {<<a, b>> : a \in DupCells.port, b \in DupCells.label}

\* The loop of lines 32-36 over the rows of a chunk: the rows not seen yet, in
\* order, and the seen set after it
RECURSIVE Unique(_, _, _)
Unique(rows, seen, acc) ==
    IF rows = <<>> THEN [unique_rows |-> acc, seen_rows |-> seen]
    ELSE IF Head(rows) \in seen THEN Unique(Tail(rows), seen, acc)
    ELSE Unique(Tail(rows), seen \cup {Head(rows)}, Append(acc, Head(rows)))

\* The filter with a set that forgets the earlier chunks
UniqueWithinChunk(rows, seen) == Unique(rows, {}, <<>>)

\* unique_rows of a chunk, given seen_rows
unique_rows_of(rows, seen) == Unique(rows, seen, <<>>)

InitDedup ==
    /\ header = DupHeader
    /\ file \in SeqsUpTo(DupRows, MaxDupRows)
    /\ CHUNK_SIZE \in 1..MaxChunk
    /\ pc = "open"
    /\ rows_read = 0
    /\ seen_rows = {}
    /\ first_chunk = TRUE
    /\ output_csv \in Destinations
    /\ is_first_chunk = TRUE
    /\ DomIdle /\ EncIdle /\ ValIdle /\ InfIdle /\ ImpIdle /\ IntIdle /\ MainIdle
    /\ SplitIdle /\ SepIdle

notDup == <<is_first_chunk, domVars, encVars, valVars, infVars, impVars, intVars,
            mainVars, splitVars, sepVars>>

\* seen_rows = set() and open(output_path, "w") (lines 20-24): the output is
\* emptied
DupOpen ==
    /\ pc = "open"
    /\ seen_rows' = {}
    /\ output_csv' = <<>>
    /\ first_chunk' = TRUE
    /\ pc' = "chunks"
    /\ UNCHANGED <<inVars, rows_read, notDup>>

\* One chunk (lines 27-42)
DupChunk ==
    /\ pc = "chunks"
    /\ rows_read < Len(file)
    /\ LET chunk == NextChunk(file, rows_read, CHUNK_SIZE)
           u == unique_rows_of(ReadStrRows(chunk), seen_rows)
       IN  /\ seen_rows' = u.seen_rows
           /\ IF u.unique_rows # <<>>
              THEN /\ output_csv' =
                        IF first_chunk
                        THEN output_csv \o ToCsvWrite(header, u.unique_rows)
                        ELSE ToCsvAppend(output_csv, u.unique_rows)
                   /\ first_chunk' = FALSE
              ELSE UNCHANGED <<output_csv, first_chunk>>
           /\ rows_read' = rows_read + Len(chunk)
    /\ UNCHANGED <<inVars, pc, notDup>>

\* The file closed at the end of the with block
DupClosed ==
    /\ pc = "chunks"
    /\ rows_read = Len(file)
    /\ pc' = "closed"
    /\ UNCHANGED <<inVars, rows_read, seen_rows, first_chunk, output_csv, notDup>>

NextDedup == DupOpen \/ DupChunk \/ DupClosed

SpecDedup == InitDedup /\ [][NextDedup]_vars

(* Properties of Remove_Duplicate_Rows.py *)

\* The rows of the input as read, up to row n
ReadUpTo(n) == ReadStrRows(SubSeq(file, 1, n))
\* Row r is the first occurrence of its value
IsFirstOccurrence(rows, r) == \A q \in 1..(r - 1) : rows[q] # rows[r]
FirstOccurrences(rows) ==
    LET keep == {r \in DOMAIN rows : IsFirstOccurrence(rows, r)}
        F[r \in 0..Len(rows)] ==
            IF r = 0 THEN <<>>
            ELSE IF r \in keep THEN Append(F[r - 1], rows[r]) ELSE F[r - 1]
    IN  F[Len(rows)]
DupWritten(lines_before, lines_after) == Len(lines_after) > Len(lines_before)

\* C29: after the chunks read so far the output holds each distinct row of
\* them once, in the order of the first occurrences, also when the
\* repetition is in a later chunk; it holds one header line, the first line,
\* as soon as a row was written, seen_rows holds exactly the rows written,
\* starting empty for the file, and a chunk that brings only rows already seen
\* leaves the output as it was.
C29_FirstOccurrencesOnce ==
    /\ pc \in {"chunks", "closed"} =>
          /\ RowsOf(output_csv) = FirstOccurrences(ReadUpTo(rows_read))
          /\ seen_rows = Range(RowsOf(output_csv))
          /\ (rows_read > 0) =>
                /\ output_csv[1] = HeaderLine(header)
                /\ HeaderCount(output_csv) = 1
          /\ (rows_read = 0) => output_csv = <<>>
    /\ [][(pc = "chunks" /\ pc' = "chunks"
            /\ Range(ReadStrRows(NextChunk(file, rows_read, CHUNK_SIZE))) \subseteq seen_rows)
             => output_csv' = output_csv]_vars

\* A row repeated in a later chunk, and a chunk of repetitions only
C29_Witness ==
    /\ pc = "closed"
    /\ CHUNK_SIZE = 1
    /\ Column(header, file, "port") = <<"80", NaN, "80", "NaN">>
    /\ RowsOf(output_csv) = <<<<"80", "Benign">>, <<NaN, "Benign">>>>

-----------------------------------------------------------------------------
(* Check_For_Impossible_Values_Range.py *)

\* (numeric_col < low) | (numeric_col > high): False on NaN (lines 71, 92)
OutsideMask(cell, low, high) ==
    Parses(cell) /\ (NumericValue[cell] < low \/ NumericValue[cell] > high)

\* invalid_mask of the three loops (lines 46, 71, 92)
RangeMask(rule, cell) ==
    CASE rule = "negative_issues" -> IsNegative(cell)
      [] rule = "port_issues" -> OutsideMask(cell, 0, 65535)
      [] rule = "percentage_issues" -> OutsideMask(cell, 0, 100)

\* The body of a try block for the columns `cols`: a column with a masked row
\* is recorded with its row indices and label counts; df.loc[invalid_mask,
\* 'label'] raises KeyError when no column is named exactly 'label', the
\* except prints a warning and the column is not recorded
RangeIssues(d, cols, rule) ==
    LET hits(col) == {i \in DOMAIN d.rows : RangeMask(rule, FrameColumn(d, col)[i])}
    IN  [col \in {c \in cols : hits(c) # {} /\ "label" \in Range(d.columns)} |->
            [ invalid_count |-> Cardinality(hits(col)),
              row_indices |-> LET pos == SelectSeq([i \in DOMAIN d.rows |-> i],
                                                   LAMBDA i : i \in hits(col))
                              IN  [j \in DOMAIN pos |-> d.index[pos[j]]],
              labels |-> ValueCounts(FrameColumn(d, "label"), hits(col)) ]]

\* The three issue groups of validate_data_quality (lines 38-106)
RangeResults(d) ==
    LET cols == Range(d.columns)
    IN  [ negative_issues |->
            RangeIssues(d, {c \in cols : Lower(c) # "label" /\ is_column_never_negative(c)},
                        "negative_issues"),
          port_issues |->
            RangeIssues(d, Range(PORT_COLUMNS) \cap cols, "port_issues"),
          percentage_issues |->
            RangeIssues(d, {c \in cols : "percentage" \in KeywordsIn[c]},
                        "percentage_issues") ]

\* invalid_indices of clean_data_if_needed (lines 157-161)
RangeInvalidIndices(res) ==
    UNION {UNION {Range(res[issue_group][col].row_indices) : col \in DOMAIN res[issue_group]} :
              issue_group \in {"negative_issues", "port_issues", "percentage_issues"}}

\* validation_results = validate_data_quality(df, filename)
RgValidate ==
    /\ pc = "load"
    /\ rows_read = Len(file)
    /\ results' = RangeResults(df)
    /\ pc' = "clean"
    /\ UNCHANGED <<inVars, rows_read, outVars, df, choice, notVal>>

\* clean_data_if_needed (lines 156-185)
RgClean ==
    /\ pc = "clean"
    /\ IF RangeInvalidIndices(results) = {}
       THEN UNCHANGED <<choice, output_csv>>
       ELSE \E answer \in {"y", "Y", "n"} :
               /\ choice' = answer
               /\ IF answer \in {"y", "Y"}
                  THEN output_csv' =
                          LET df_clean == DropIndex(df, RangeInvalidIndices(results))
                          IN  ToCsvWrite(df_clean.columns, df_clean.rows)
                  ELSE UNCHANGED output_csv
    /\ pc' = "done"
    /\ UNCHANGED <<inVars, rows_read, is_first_chunk, df, results, notVal>>

\* The load is that of run_data_validation: the chunks concatenated, the
\* index 0, 1, ... over the whole file
NextRange == ValReadChunk \/ RgValidate \/ RgClean

SpecRange == InitValidation /\ [][NextRange]_vars

(* Properties of Check_For_Impossible_Values_Range.py *)

\* The rule a cell of the column breaks, if any
BreaksRule(col, cell) ==
    \/ Lower(col) # "label" /\ is_column_never_negative(col) /\ RangeMask("negative_issues", cell)
    \/ col \in Range(PORT_COLUMNS) /\ RangeMask("port_issues", cell)
    \/ "percentage" \in KeywordsIn[col] /\ RangeMask("percentage_issues", cell)
HasLabelColumn == "label" \in Range(header)

\* C30: every cell that breaks a rule is recorded in results and its row is
\* in the removal set of clean_data_if_needed, also when the file has no
\* column named exactly 'label' and the label breakdown cannot be computed.
C30_ViolationRecorded ==
    Validated =>
       \A i \in DOMAIN file : \A c \in DOMAIN header :
          BreaksRule(header[c], file[i][c]) =>
             /\ (i - 1) \in RangeInvalidIndices(results)
             /\ \E rule \in DOMAIN results : header[c] \in DOMAIN results[rule]

\* With a column named 'label' the violations are recorded
C30_RecordedWithLabelColumn ==
    (Validated /\ HasLabelColumn) =>
       \A i \in DOMAIN file : \A c \in DOMAIN header :
          BreaksRule(header[c], file[i][c]) =>
             /\ (i - 1) \in RangeInvalidIndices(results)
             /\ \E rule \in DOMAIN results : header[c] \in DOMAIN results[rule]

\* A port of 65536 in a file whose label column is named 'Label': nothing is
\* recorded and no cleaning is offered
C30_ViolationLost ==
    /\ pc = "done"
    /\ header = <<"src_port", "idle_percentage", "Label">>
    /\ Len(file) = 1 /\ file[1][1] = "65536"
    /\ results.port_issues = <<>>
    /\ choice = ""

=============================================================================
